---- MODULE Spec2Model ----
(***************************************************************************)
(* The hand-managed array containers of structures/01-arrays:              *)
(*   DynamicArray<T>  (implementations/rust/src/dynamic_array.rs)           *)
(*   Array<T>         (implementations/rust/src/core.rs)                    *)
(* One container is under observation in a behaviour: `kind` says which.   *)
(* Both structs have the same fields (ptr, capacity, len); the raw memory  *)
(* behind ptr and the allocator are modelled explicitly so that ownership  *)
(* of every slot and of the allocation can be observed.                    *)
(***************************************************************************)
EXTENDS Integers, Sequences, FiniteSets, TLC

\* ---------------------------------------------------------------- bounds
\* Largest capacity a behaviour may reach (growth beyond it is not explored).
MaxCapacity == 8
\* Addresses the allocator may hand out.
NumAddrs == 1
\* Longest sequence handed to extend.
MaxExtend == 2
\* Most pushes of a recorded pushes-then-pops run.
MaxRun == 5
\* Largest capacity shrink_to_fit is met at in SpecShrink.
MaxShrinkCapacity == 100
\* Longest slice handed to Array::from_slice.
MaxSlice == 3
\* Most elements of a container handed to a search.
MaxSearchLen == 7
\* Most elements of an unsorted container handed to a search.
MaxUnsortedLen == 6
\* grow() is met at the capacities within MaxGrowCapacity of 0, of
\* usize::MAX / 2 and of usize::MAX.
MaxGrowCapacity == 20
\* Most elements of a container jump_search_with_size is followed on step by
\* step.
MaxJumpLen == 4

\* The element type T is opaque to the containers (they move values, never
\* inspect them): two distinguishable values stand for it.
Values == {1, 2}
Addrs == 1..NumAddrs

\* ptr::null_mut()
NULL == 0
\* usize::MAX, the limit checked_mul tests against.
USIZE_MAX == 2147483647

\* ------------------------------------------------------------ Option<T>
None == [tag |-> "None", val |-> 0]
Some(x) == [tag |-> "Some", val |-> x]
\* Result<(), T> of Array::push, and the unit return of the other mutators.
Ok == [tag |-> "Ok", val |-> 0]
Err(x) == [tag |-> "Err", val |-> x]
Unit == [tag |-> "Unit", val |-> 0]
\* The operation did not return: it panicked.
Panicked == [tag |-> "Panic", val |-> 0]

\* ------------------------------------------------------------ raw memory
\* A slot of the buffer is uninitialized (never written since allocation),
\* init (holds a live T the container owns), or moved (its T was moved out by
\* ptr.read(); the stale bits are indeterminate as far as the program goes).
Uninit == [st |-> "uninit", v |-> 0]
Moved == [st |-> "moved", v |-> 0]
Live(x) == [st |-> "init", v |-> x]

UninitBlock(n) == [i \in 1..n |-> Uninit]

Min(a, b) == IF a < b THEN a ELSE b
Max(a, b) == IF a > b THEN a ELSE b

\* The container together with the memory it points into: m.mem is the block
\* at m.ptr, m.heap the size of the live allocation at every address (0: none),
\* m.ub the undefined behaviour and leaks committed so far.
EmptyHeap == [a \in Addrs |-> 0]

\* ptr.add(i).write(x): stores x without dropping what was there.
ptr_write(m, i, x) ==
    IF i >= Len(m.mem)
    THEN [m EXCEPT !.ub = @ \cup {"write_out_of_block"}]
    ELSE [m EXCEPT !.mem[i + 1] = Live(x),
                   !.ub = @ \cup (IF m.mem[i + 1].st = "init" THEN {"leak"} ELSE {})]

\* ptr.add(i).read(): moves the T out of the slot; the caller of read owns it.
ptr_read(m, i) ==
    IF i >= Len(m.mem)
    THEN [m |-> [m EXCEPT !.ub = @ \cup {"read_out_of_block"}], val |-> 0]
    ELSE [m |-> [m EXCEPT !.mem[i + 1] = Moved,
                          !.ub = @ \cup (CASE m.mem[i + 1].st = "init" -> {}
                                           [] m.mem[i + 1].st = "moved" -> {"double_release"}
                                           [] OTHER -> {"uninit_read"})],
          val |-> m.mem[i + 1].v]

\* &*ptr.add(i): the value a reference to slot i refers to (0 stands for the
\* indeterminate content of a slot that holds no live T).
deref(m, i) == IF i < Len(m.mem) THEN m.mem[i + 1].v ELSE 0

\* What the allocator may answer: NULL (failure) or an address not in use;
\* realloc may also keep the block where it is.
AllocAnswers(m) == {NULL} \cup {a \in Addrs : m.heap[a] = 0}
ReallocAnswers(m) == AllocAnswers(m) \cup {m.ptr}

\* alloc(Layout::array::<T>(n)) answered by a # NULL.
alloc(m, n, a) ==
    [m EXCEPT !.ptr = a, !.heap[a] = n, !.mem = UninitBlock(n)]

\* realloc(ptr, Layout::array::<T>(old), new size) answered by a # NULL:
\* the first min(old, new) slots are carried over, the block at ptr is gone.
realloc(m, old, new, a) ==
    LET bad == IF m.ptr = NULL \/ m.heap[m.ptr] # old THEN {"bad_realloc"} ELSE {}
        kept == Min(Len(m.mem), new)
    IN  [m EXCEPT !.ptr = a,
                  !.heap = [x \in Addrs |-> IF x = a THEN new
                                            ELSE IF x = m.ptr THEN 0 ELSE m.heap[x]],
                  !.mem = [i \in 1..new |-> IF i <= kept THEN m.mem[i] ELSE Uninit],
                  !.ub = @ \cup bad]

\* dealloc(ptr, Layout::array::<T>(n)): the fields of the container are
\* untouched; a T still live in the block is never dropped (leaked).
dealloc(m, n) ==
    IF m.ptr = NULL \/ m.heap[m.ptr] # n
    THEN [m EXCEPT !.ub = @ \cup {"bad_dealloc"}]
    ELSE [m EXCEPT !.heap[m.ptr] = 0, !.mem = <<>>,
                   !.ub = @ \cup (IF \E i \in DOMAIN m.mem : m.mem[i].st = "init"
                                  THEN {"leak"} ELSE {})]

\* usize::checked_mul: None if a * b exceeds usize::MAX.
checked_mul(a, b) == IF b # 0 /\ a > USIZE_MAX \div b THEN None ELSE Some(a * b)

\* The outcome of one call: the container afterwards, what was returned, the
\* values the call dropped (in order), and the panic if it did not return.
Outcome(m, ret, dropped, fault) ==
    [m |-> m, ret |-> ret, dropped |-> dropped, fault |-> fault]
Returned(m, ret) == Outcome(m, ret, <<>>, "none")

\* --------------------------------------------------------- DynamicArray
DynamicArray_new ==
    [ptr |-> NULL, capacity |-> 0, len |-> 0, mem |-> <<>>, heap |-> EmptyHeap, ub |-> {}]

\* with_capacity(capacity) when the allocator answers a # NULL.
DynamicArray_with_capacity(cap, a) ==
    IF cap = 0
    THEN DynamicArray_new
    ELSE [alloc(DynamicArray_new, cap, a) EXCEPT !.capacity = cap]

\* A grow that adds one slot instead of doubling.
DynamicArray_grow_by_one(m, a) ==
    IF a = NULL
    THEN [m |-> m, fault |-> "alloc_failed"]
    ELSE IF m.capacity = 0
         THEN [m |-> [alloc(m, 1, a) EXCEPT !.capacity = 1], fault |-> "none"]
         ELSE [m |-> [realloc(m, m.capacity, m.capacity + 1, a)
                          EXCEPT !.capacity = m.capacity + 1],
               fault |-> "none"]

\* A grow that takes a fresh block and frees the old one without carrying
\* the elements over.
DynamicArray_grow_fresh_block(m, a) ==
    IF a = NULL
    THEN [m |-> m, fault |-> "alloc_failed"]
    ELSE LET new_capacity == IF m.capacity = 0 THEN 1 ELSE m.capacity * 2
             freed == [m EXCEPT !.heap = [x \in Addrs |-> IF x = m.ptr THEN 0 ELSE m.heap[x]]]
         IN  [m |-> [alloc(freed, new_capacity, a) EXCEPT !.capacity = new_capacity],
              fault |-> "none"]

\* A new capacity computed with a multiplication that wraps around.
DynamicArray_grow_new_capacity_wrapping(capacity) ==
    IF capacity = 0 THEN Some(1)
    ELSE Some(IF capacity > USIZE_MAX - capacity
              THEN capacity - (USIZE_MAX - capacity) - 1
              ELSE capacity * 2)

\* The first statement of grow(): new_capacity is 1 if capacity is 0, else
\* capacity.checked_mul(2); None stands for the panic of unwrap_or_else.
DynamicArray_grow_new_capacity(capacity) ==
    IF capacity = 0 THEN Some(1) ELSE checked_mul(capacity, 2)

\* grow(), the allocator answering a. The result is the container and the
\* panic raised ("none" when grow returns).
DynamicArray_grow(m, a) ==
    LET computed == DynamicArray_grow_new_capacity(m.capacity)
    IN  IF computed = None
        THEN [m |-> m, fault |-> "capacity_overflow"]
        ELSE LET new_capacity == computed.val
             IN  IF a = NULL
                 THEN [m |-> m, fault |-> "alloc_failed"]
                 ELSE IF m.capacity = 0
                      THEN [m |-> [alloc(m, new_capacity, a) EXCEPT !.capacity = new_capacity],
                            fault |-> "none"]
                      ELSE [m |-> [realloc(m, m.capacity, new_capacity, a)
                                       EXCEPT !.capacity = new_capacity],
                            fault |-> "none"]

\* A push that grows one push too late (len > capacity instead of ==).
DynamicArray_push_late_grow(m, value, a) ==
    LET g == IF m.len > m.capacity THEN DynamicArray_grow(m, a)
                                   ELSE [m |-> m, fault |-> "none"]
    IN  IF g.fault # "none"
        THEN Outcome(g.m, Panicked, <<value>>, g.fault)
        ELSE Returned([ptr_write(g.m, g.m.len, value) EXCEPT !.len = @ + 1], Unit)

\* push(value), the allocator answering a if grow is called. On a panic in
\* grow the value, still owned by push, is dropped by the unwinding.
DynamicArray_push(m, value, a) ==
    LET g == IF m.len = m.capacity THEN DynamicArray_grow(m, a)
                                   ELSE [m |-> m, fault |-> "none"]
    IN  IF g.fault # "none"
        THEN Outcome(g.m, Panicked, <<value>>, g.fault)
        ELSE Returned([ptr_write(g.m, g.m.len, value) EXCEPT !.len = @ + 1], Unit)

\* A pop that reads the slot before decrementing len.
DynamicArray_pop_read_first(m) ==
    IF m.len = 0
    THEN Returned(m, None)
    ELSE LET r == ptr_read(m, m.len)
         IN  Returned([r.m EXCEPT !.len = @ - 1], Some(r.val))

\* A first statement of pop that moves the last element out and leaves len.
pop_read_first(m) == ptr_read(m, m.len - 1).m

\* The statements of pop() after the emptiness check, one at a time (the
\* same in DynamicArray::pop and Array::pop):
\*   self.len -= 1;
pop_decrement(m) == [m EXCEPT !.len = @ - 1]
\*   Some(self.ptr.add(self.len).read())
pop_read(m) == ptr_read(m, m.len)

\* pop(): len is decremented, then the slot is read.
DynamicArray_pop(m) ==
    IF m.len = 0
    THEN Returned(m, None)
    ELSE LET m1 == [m EXCEPT !.len = @ - 1]
             r == ptr_read(m1, m1.len)
         IN  Returned(r.m, Some(r.val))


\* A get whose bounds check is off by one (index > len instead of >=).
DynamicArray_get_off_by_one(m, index) ==
    IF index > m.len
    THEN Returned(m, None)
    ELSE Returned(m, Some(deref(m, index)))

\* get(index) / get_mut(index): a reference to slot index, or None. The
\* reference is modelled by the value it refers to.
DynamicArray_get(m, index) ==
    IF index >= m.len
    THEN Returned(m, None)
    ELSE Returned(m, Some(deref(m, index)))

DynamicArray_get_mut(m, index) ==
    IF index >= m.len
    THEN Returned(m, None)
    ELSE Returned(m, Some(deref(m, index)))

\* clear(): while self.pop().is_some() {} ; every popped value is dropped.
RECURSIVE DynamicArray_clear_loop(_, _)
DynamicArray_clear_loop(m, dropped) ==
    LET o == DynamicArray_pop(m)
    IN  IF o.ret.tag = "Some"
        THEN DynamicArray_clear_loop(o.m, Append(dropped, o.ret.val))
        ELSE Outcome(o.m, Unit, dropped, "none")

DynamicArray_clear(m) == DynamicArray_clear_loop(m, <<>>)

\* A shrink that triggers at half full, the naive threshold.
ShrinkTriggered_at_half(m) == m.len > 0 /\ m.len <= m.capacity \div 2 /\ m.capacity > 4

\* The condition of the first branch of shrink_to_fit.
ShrinkTriggered(m) == m.len > 0 /\ m.len < m.capacity \div 4 /\ m.capacity > 4

\* A shrink_to_fit that shrinks the buffer to the length.
DynamicArray_shrink_to_fit_to_len(m, a) ==
    IF ShrinkTriggered(m)
    THEN LET new_capacity == m.len
         IN  IF a = NULL
             THEN Outcome(m, Panicked, <<>>, "alloc_failed")
             ELSE Returned([realloc(m, m.capacity, new_capacity, a)
                                EXCEPT !.capacity = new_capacity], Unit)
    ELSE IF m.len = 0 /\ m.capacity > 0
         THEN Returned([dealloc(m, m.capacity) EXCEPT !.ptr = NULL, !.capacity = 0], Unit)
         ELSE Returned(m, Unit)

\* A shrink_to_fit that frees the buffer and forgets to reset ptr.
DynamicArray_shrink_to_fit_dangling(m, a) ==
    IF ShrinkTriggered(m)
    THEN LET new_capacity == Max(m.capacity \div 2, m.len)
         IN  IF a = NULL
             THEN Outcome(m, Panicked, <<>>, "alloc_failed")
             ELSE Returned([realloc(m, m.capacity, new_capacity, a)
                                EXCEPT !.capacity = new_capacity], Unit)
    ELSE IF m.len = 0 /\ m.capacity > 0
         THEN Returned([dealloc(m, m.capacity) EXCEPT !.capacity = 0], Unit)
         ELSE Returned(m, Unit)

\* shrink_to_fit(), the allocator answering a in the realloc branch.
DynamicArray_shrink_to_fit(m, a) ==
    IF ShrinkTriggered(m)
    THEN LET new_capacity == Max(m.capacity \div 2, m.len)
         IN  IF a = NULL
             THEN Outcome(m, Panicked, <<>>, "alloc_failed")
             ELSE Returned([realloc(m, m.capacity, new_capacity, a)
                                EXCEPT !.capacity = new_capacity], Unit)
    ELSE IF m.len = 0 /\ m.capacity > 0
         THEN Returned([dealloc(m, m.capacity) EXCEPT !.ptr = NULL, !.capacity = 0], Unit)
         ELSE Returned(m, Unit)

\* The allocator's possible answers to the calls push / shrink_to_fit make
\* from m ({NULL} stands for "not asked").
PushAnswers(m) ==
    IF m.len = m.capacity
    THEN (IF m.capacity = 0 THEN AllocAnswers(m) ELSE ReallocAnswers(m))
    ELSE {NULL}

ShrinkAnswers(m) == IF ShrinkTriggered(m) THEN ReallocAnswers(m) ELSE {NULL}

\* extend(iter): for item in iter { self.push(item) }. The set of outcomes over
\* the allocator's answers; on a panic the items not yet pushed are dropped
\* with the iterator.
RECURSIVE DynamicArray_extend_loop(_, _, _)
DynamicArray_extend_loop(m, items, dropped) ==
    IF items = <<>>
    THEN {Outcome(m, Unit, dropped, "none")}
    ELSE UNION { LET o == DynamicArray_push(m, Head(items), a)
                 IN  IF o.fault # "none"
                     THEN {Outcome(o.m, Panicked, dropped \o o.dropped \o Tail(items), o.fault)}
                     ELSE DynamicArray_extend_loop(o.m, Tail(items), dropped)
                 : a \in PushAnswers(m) }

\* An extend that reserves room for all items at once (one allocation of
\* exactly len + items) before storing them.
DynamicArray_extend_presized(m, items) ==
    LET need == m.len + Len(items)
        sized == IF need <= m.capacity THEN {m}
                 ELSE IF m.capacity = 0
                      THEN {[alloc(m, need, a) EXCEPT !.capacity = need] :
                                a \in AllocAnswers(m) \ {NULL}}
                      ELSE {[realloc(m, m.capacity, need, a) EXCEPT !.capacity = need] :
                                a \in ReallocAnswers(m) \ {NULL}}
    IN  UNION {DynamicArray_extend_loop(r, items, <<>>) : r \in sized}

DynamicArray_extend(m, items) == DynamicArray_extend_loop(m, items, <<>>)

\* ---------------------------------------------------------------- Array
\* Array::new(capacity) for capacity > 0 when the allocator answers a # NULL
\* (capacity 0 and a NULL answer panic: no Array comes to exist).
Array_new(cap, a) ==
    [alloc(DynamicArray_new, cap, a) EXCEPT !.capacity = cap]

\* A push that makes room when full, as the growable container's does.
Array_push_growable(m, value) ==
    LET o == DynamicArray_push(m, value, m.ptr)
    IN  Returned(o.m, Ok)

\* A push whose capacity check is off by one (len > capacity instead of >=).
Array_push_off_by_one(m, value) ==
    IF m.len > m.capacity
    THEN Returned(m, Err(value))
    ELSE Returned([ptr_write(m, m.len, value) EXCEPT !.len = @ + 1], Ok)

\* push(value) -> Result<(), T>
Array_push(m, value) ==
    IF m.len >= m.capacity
    THEN Returned(m, Err(value))
    ELSE Returned([ptr_write(m, m.len, value) EXCEPT !.len = @ + 1], Ok)

Array_pop(m) ==
    IF m.len = 0
    THEN Returned(m, None)
    ELSE LET m1 == [m EXCEPT !.len = @ - 1]
             r == ptr_read(m1, m1.len)
         IN  Returned(r.m, Some(r.val))

Array_get(m, index) ==
    IF index >= m.len
    THEN Returned(m, None)
    ELSE Returned(m, Some(deref(m, index)))

Array_get_mut(m, index) ==
    IF index >= m.len
    THEN Returned(m, None)
    ELSE Returned(m, Some(deref(m, index)))

\* A set that overwrites the slot without reading the old value out.
Array_set_no_release(m, index, value) ==
    IF ~(index < m.len)
    THEN Outcome(m, Panicked, <<value>>, "index_out_of_bounds")
    ELSE Outcome(ptr_write(m, index, value), Unit, <<>>, "none")

\* set(index, value): assert!(index < len); ptr.read() drops the old value,
\* ptr.write(value) stores the new one. On the panic the value is dropped.
Array_set(m, index, value) ==
    IF ~(index < m.len)
    THEN Outcome(m, Panicked, <<value>>, "index_out_of_bounds")
    ELSE LET r == ptr_read(m, index)
         IN  Outcome(ptr_write(r.m, index, value), Unit, <<r.val>>, "none")

RECURSIVE Array_clear_loop(_, _)
Array_clear_loop(m, dropped) ==
    LET o == Array_pop(m)
    IN  IF o.ret.tag = "Some"
        THEN Array_clear_loop(o.m, Append(dropped, o.ret.val))
        ELSE Outcome(o.m, Unit, dropped, "none")

\* A clear that resets len and releases nothing.
Array_clear_len_only(m) == Outcome([m EXCEPT !.len = 0], Unit, <<>>, "none")

Array_clear(m) == Array_clear_loop(m, <<>>)

\* ------------------------------------------------------- destruction
\* A destructor that frees the buffer without releasing the elements.
DynamicArray_drop_no_clear(m) ==
    Outcome(IF m.capacity > 0 THEN dealloc(m, m.capacity) ELSE m, Unit, <<>>, "none")

\* Drop for DynamicArray<T>: clear(), then dealloc if capacity > 0.
DynamicArray_drop(m) ==
    LET c == DynamicArray_clear(m)
    IN  Outcome(IF c.m.capacity > 0 THEN dealloc(c.m, c.m.capacity) ELSE c.m,
                Unit, c.dropped, "none")

\* Drop for Array<T>: clear(), then dealloc if capacity > 0.
Array_drop(m) ==
    LET c == Array_clear(m)
    IN  Outcome(IF c.m.capacity > 0 THEN dealloc(c.m, c.m.capacity) ELSE c.m,
                Unit, c.dropped, "none")

\* ----------------------------------------------------- DynamicArrayIter
\* The iterator has the container's fields and the cursor `index`; what a
\* call on it leaves: the fields and memory, the cursor, the return value and
\* the values the call dropped.
IterOutcome(m, index, ret, dropped) ==
    [m |-> m, index |-> index, ret |-> ret, dropped |-> dropped, fault |-> "none"]

\* An into_iter that lets the container's destructor run (no mem::forget).
DynamicArray_into_iter_no_forget(m) ==
    IterOutcome([DynamicArray_drop(m).m EXCEPT !.ptr = m.ptr, !.capacity = m.capacity,
                                               !.len = m.len],
                0, Unit, DynamicArray_drop(m).dropped)

\* into_iter(self): ptr, capacity and len are copied, index starts at 0 and
\* mem::forget(self) keeps the container's destructor from running.
DynamicArray_into_iter(m) == IterOutcome(m, 0, Unit, <<>>)

\* A next whose bound check lets the cursor reach the slot at len.
DynamicArrayIter_next_inclusive(m, index) ==
    IF index <= m.len
    THEN LET r == ptr_read(m, index)
         IN  IterOutcome(r.m, index + 1, Some(r.val), <<>>)
    ELSE IterOutcome(m, index, None, <<>>)

\* next(): moves the element at the cursor out and advances, or None.
DynamicArrayIter_next(m, index) ==
    IF index < m.len
    THEN LET r == ptr_read(m, index)
         IN  IterOutcome(r.m, index + 1, Some(r.val), <<>>)
    ELSE IterOutcome(m, index, None, <<>>)

\* The loop of the iterator's destructor: the elements not yet yielded are
\* read out and dropped.
RECURSIVE DynamicArrayIter_drop_loop(_, _, _)
DynamicArrayIter_drop_loop(m, index, dropped) ==
    IF index < m.len
    THEN LET r == ptr_read(m, index)
         IN  DynamicArrayIter_drop_loop(r.m, index + 1, Append(dropped, r.val))
    ELSE IterOutcome(m, index, Unit, dropped)

\* Drop for DynamicArrayIter<T>.
DynamicArrayIter_drop(m, index) ==
    LET l == DynamicArrayIter_drop_loop(m, index, <<>>)
    IN  IterOutcome(IF l.m.capacity > 0 /\ l.m.ptr # NULL
                    THEN dealloc(l.m, l.m.capacity) ELSE l.m,
                    l.index, Unit, l.dropped)

\* ---------------------------------------------------- Array::from_slice
\* The panic of Array::new(capacity), the allocator answering a.
Array_new_fault(cap, a) ==
    IF cap = 0 THEN "zero_capacity"
    ELSE IF a = NULL THEN "alloc_failed"
    ELSE "none"

\* for item in slice { array.push(item.clone()).ok()?; }: a refused push
\* drops the clone and the array and makes from_slice return None.
RECURSIVE Array_from_slice_loop(_, _)
Array_from_slice_loop(m, items) ==
    IF items = <<>>
    THEN Returned(m, Some(0))
    ELSE LET o == Array_push(m, Head(items))
         IN  IF o.ret = Ok
             THEN Array_from_slice_loop(o.m, Tail(items))
             ELSE Outcome(Array_drop(o.m).m, None,
                          <<o.ret.val>> \o Array_drop(o.m).dropped, "none")

\* A from_slice that also refuses a slice that fills the capacity exactly.
Array_from_slice_strict(slice, cap, a) ==
    IF Len(slice) >= cap
    THEN Returned(DynamicArray_new, None)
    ELSE IF Array_new_fault(cap, a) # "none"
         THEN Outcome(DynamicArray_new, Panicked, <<>>, Array_new_fault(cap, a))
         ELSE Array_from_slice_loop(Array_new(cap, a), slice)

\* from_slice(slice, capacity) -> Option<Array<T>>, the allocator answering
\* a to Array::new. Some(0) stands for Some(array): the array is the record m.
Array_from_slice(slice, cap, a) ==
    IF Len(slice) > cap
    THEN Returned(DynamicArray_new, None)
    ELSE IF Array_new_fault(cap, a) # "none"
         THEN Outcome(DynamicArray_new, Panicked, <<>>, Array_new_fault(cap, a))
         ELSE Array_from_slice_loop(Array_new(cap, a), slice)

\* ------------------------------------------------------------- searches
\* The searches are implemented once, by a macro, for Array<T> and for
\* DynamicArray<T>; they read the container through len(), is_empty() and
\* get() only. k is the type the macro is instantiated for.
Container_get(k, m, index) ==
    IF k = "Array" THEN Array_get(m, index) ELSE DynamicArray_get(m, index)

\* Ord::cmp on the element type (integers here).
cmp(a, b) == IF a < b THEN "Less" ELSE IF a = b THEN "Equal" ELSE "Greater"

\* A usize the call returns (binary_search_insertion_point).
Usize(p) == [tag |-> "usize", val |-> p]

\* A binary search loop that stops when low meets high (while low < high).
RECURSIVE binary_search_loop_exclusive(_, _, _, _, _)
binary_search_loop_exclusive(k, m, target, low, high) ==
    IF ~(low < high)
    THEN None
    ELSE LET mid == low + (high - low) \div 2
             e == Container_get(k, m, mid).ret
         IN  IF e = None THEN None
             ELSE CASE cmp(e.val, target) = "Equal" -> Some(mid)
                    [] cmp(e.val, target) = "Less" ->
                           binary_search_loop_exclusive(k, m, target, mid + 1, high)
                    [] OTHER ->
                           IF mid = 0 THEN None
                           ELSE binary_search_loop_exclusive(k, m, target, low, mid - 1)

\* The loop of binary_search: while low <= high. get(mid)? returns None from
\* the search if the index is out of bounds.
RECURSIVE binary_search_loop(_, _, _, _, _)
binary_search_loop(k, m, target, low, high) ==
    IF ~(low <= high)
    THEN None
    ELSE LET mid == low + (high - low) \div 2
             e == Container_get(k, m, mid).ret
         IN  IF e = None THEN None
             ELSE CASE cmp(e.val, target) = "Equal" -> Some(mid)
                    [] cmp(e.val, target) = "Less" ->
                           binary_search_loop(k, m, target, mid + 1, high)
                    [] OTHER ->
                           IF mid = 0 THEN None
                           ELSE binary_search_loop(k, m, target, low, mid - 1)

binary_search(k, m, target) ==
    IF m.len = 0 THEN None ELSE binary_search_loop(k, m, target, 0, m.len - 1)

\* The loop of binary_search_first: a match is remembered and the search
\* goes on in the left half.
RECURSIVE binary_search_first_loop(_, _, _, _, _, _)
binary_search_first_loop(k, m, target, low, high, result) ==
    IF ~(low <= high)
    THEN result
    ELSE LET mid == low + (high - low) \div 2
             e == Container_get(k, m, mid).ret
         IN  IF e = None THEN None
             ELSE CASE cmp(e.val, target) = "Equal" ->
                           IF mid = 0 THEN Some(mid)
                           ELSE binary_search_first_loop(k, m, target, low, mid - 1, Some(mid))
                    [] cmp(e.val, target) = "Less" ->
                           binary_search_first_loop(k, m, target, mid + 1, high, result)
                    [] OTHER ->
                           IF mid = 0 THEN result
                           ELSE binary_search_first_loop(k, m, target, low, mid - 1, result)

\* A binary_search_first that settles for the first match it meets.
binary_search_first_any(k, m, target) == binary_search(k, m, target)

binary_search_first(k, m, target) ==
    IF m.len = 0 THEN None
    ELSE binary_search_first_loop(k, m, target, 0, m.len - 1, None)

\* The loop of binary_search_last: a match is remembered and the search goes
\* on in the right half.
RECURSIVE binary_search_last_loop(_, _, _, _, _, _)
binary_search_last_loop(k, m, target, low, high, result) ==
    IF ~(low <= high)
    THEN result
    ELSE LET mid == low + (high - low) \div 2
             e == Container_get(k, m, mid).ret
         IN  IF e = None THEN None
             ELSE CASE cmp(e.val, target) = "Equal" ->
                           binary_search_last_loop(k, m, target, mid + 1, high, Some(mid))
                    [] cmp(e.val, target) = "Less" ->
                           binary_search_last_loop(k, m, target, mid + 1, high, result)
                    [] OTHER ->
                           IF mid = 0 THEN result
                           ELSE binary_search_last_loop(k, m, target, low, mid - 1, result)

binary_search_last(k, m, target) ==
    IF m.len = 0 THEN None
    ELSE binary_search_last_loop(k, m, target, 0, m.len - 1, None)

\* An insertion point loop that steps over the elements equal to the target
\* as well (elem <= target).
RECURSIVE binary_search_insertion_point_loop_upper(_, _, _, _, _)
binary_search_insertion_point_loop_upper(k, m, target, low, high) ==
    IF ~(low < high)
    THEN low
    ELSE LET mid == low + (high - low) \div 2
             e == Container_get(k, m, mid).ret
         IN  IF e # None /\ e.val <= target
             THEN binary_search_insertion_point_loop_upper(k, m, target, mid + 1, high)
             ELSE binary_search_insertion_point_loop_upper(k, m, target, low, mid)

\* The loop of binary_search_insertion_point over the half-open [low, high).
RECURSIVE binary_search_insertion_point_loop(_, _, _, _, _)
binary_search_insertion_point_loop(k, m, target, low, high) ==
    IF ~(low < high)
    THEN low
    ELSE LET mid == low + (high - low) \div 2
             e == Container_get(k, m, mid).ret
         IN  IF e # None /\ e.val < target
             THEN binary_search_insertion_point_loop(k, m, target, mid + 1, high)
             ELSE binary_search_insertion_point_loop(k, m, target, low, mid)

binary_search_insertion_point(k, m, target) ==
    IF m.len = 0 THEN Usize(0)
    ELSE Usize(binary_search_insertion_point_loop(k, m, target, 0, m.len))

\* usize arithmetic: a result outside 0..usize::MAX panics in a build with
\* overflow checks (debug) and wraps around in one without (release).
Builds == {"debug", "release"}
add_overflows(a, b) == b > USIZE_MAX - a
wrapping_add(a, b) == IF add_overflows(a, b) THEN a - (USIZE_MAX - b) - 1 ELSE a + b
sub_overflows(a, b) == b > a
wrapping_sub(a, b) == IF sub_overflows(a, b) THEN (USIZE_MAX - b) + a + 1 ELSE a - b

\* What a search that may not return leaves: its return value, or the panic,
\* or "hang" if it never returns.
Diverged == [tag |-> "Diverged", val |-> 0]
SearchResult(ret, fault) == [ret |-> ret, fault |-> fault]

\* optimal_jump_size(n): ceil(sqrt(n)), at least 1; 0 for n = 0.
optimal_jump_size(n) ==
    IF n = 0 THEN 0
    ELSE Max(CHOOSE r \in 0..n : r * r >= n /\ (r = 0 \/ (r - 1) * (r - 1) < n), 1)

\* A jump phase that also jumps over a block ending in the target
\* (get(curr)? <= target).
RECURSIVE jump_phase_inclusive(_, _, _, _, _, _, _, _)
jump_phase_inclusive(k, m, target, jump_size, build, prev, curr, fuel) ==
    LET n == m.len
        e == Container_get(k, m, curr).ret
        done == [prev |-> prev, curr |-> curr, ret |-> Unit, fault |-> "none"]
    IN  IF ~(curr < n) THEN done
        ELSE IF e = None THEN [done EXCEPT !.ret = None]
        ELSE IF ~(e.val <= target) THEN done
        ELSE IF fuel = 0 THEN [done EXCEPT !.ret = Diverged, !.fault = "hang"]
        ELSE LET prev1 == curr + 1
                 curr1 == Min(wrapping_add(curr, jump_size), n - 1)
                 panic == [done EXCEPT !.ret = Panicked, !.fault = "arithmetic_overflow"]
             IN  IF add_overflows(curr, jump_size) /\ build = "debug" THEN panic
                 ELSE IF curr1 = n - 1 /\ sub_overflows(n, jump_size) /\ build = "debug"
                      THEN panic
                 ELSE IF curr1 = n - 1 /\ prev1 > wrapping_sub(n, jump_size)
                      THEN [done EXCEPT !.prev = prev1, !.curr = curr1]
                      ELSE jump_phase_inclusive(k, m, target, jump_size, build,
                                                prev1, curr1, fuel - 1)

\* The jump phase of jump_search_with_size, entered with (prev, curr):
\*   while curr < n && self.get(curr)? < target { ... }
\* The result is the (prev, curr) the linear phase starts from, or the early
\* return, panic or hang. The next (prev, curr) is a function of curr < n, so
\* a loop body that runs more than n times runs forever: `fuel` counts the
\* runs left.
RECURSIVE jump_phase(_, _, _, _, _, _, _, _)
jump_phase(k, m, target, jump_size, build, prev, curr, fuel) ==
    LET n == m.len
        e == Container_get(k, m, curr).ret
        done == [prev |-> prev, curr |-> curr, ret |-> Unit, fault |-> "none"]
    IN  IF ~(curr < n) THEN done
        ELSE IF e = None THEN [done EXCEPT !.ret = None]
        ELSE IF ~(e.val < target) THEN done
        ELSE IF fuel = 0 THEN [done EXCEPT !.ret = Diverged, !.fault = "hang"]
        ELSE LET prev1 == curr + 1
                 curr1 == Min(wrapping_add(curr, jump_size), n - 1)
                 panic == [done EXCEPT !.ret = Panicked, !.fault = "arithmetic_overflow"]
             IN  IF add_overflows(curr, jump_size) /\ build = "debug" THEN panic
                 ELSE IF curr1 = n - 1 /\ sub_overflows(n, jump_size) /\ build = "debug"
                      THEN panic
                 ELSE IF curr1 = n - 1 /\ prev1 > wrapping_sub(n, jump_size)
                      THEN [done EXCEPT !.prev = prev1, !.curr = curr1]
                      ELSE jump_phase(k, m, target, jump_size, build, prev1, curr1, fuel - 1)

\* A linear phase that leaves out the last element of the block (prev < curr).
RECURSIVE jump_linear_phase_exclusive(_, _, _, _, _)
jump_linear_phase_exclusive(k, m, target, prev, curr) ==
    IF ~(prev < curr /\ prev < m.len)
    THEN None
    ELSE LET e == Container_get(k, m, prev).ret
         IN  IF e = None THEN None
             ELSE CASE cmp(e.val, target) = "Equal" -> Some(prev)
                    [] cmp(e.val, target) = "Greater" -> None
                    [] OTHER -> jump_linear_phase_exclusive(k, m, target, prev + 1, curr)

\* The linear phase: while prev <= curr && prev < n { match get(prev)?.cmp(target) }
RECURSIVE jump_linear_phase(_, _, _, _, _)
jump_linear_phase(k, m, target, prev, curr) ==
    IF ~(prev <= curr /\ prev < m.len)
    THEN None
    ELSE LET e == Container_get(k, m, prev).ret
         IN  IF e = None THEN None
             ELSE CASE cmp(e.val, target) = "Equal" -> Some(prev)
                    [] cmp(e.val, target) = "Greater" -> None
                    [] OTHER -> jump_linear_phase(k, m, target, prev + 1, curr)

jump_search_with_size(k, m, target, jump_size, build) ==
    LET n == m.len
    IN  IF n = 0 \/ jump_size = 0
        THEN SearchResult(None, "none")
        ELSE LET j == jump_phase(k, m, target, jump_size, build,
                                 0, Min(jump_size, n) - 1, n)
             IN  IF j.ret # Unit
                 THEN SearchResult(j.ret, j.fault)
                 ELSE SearchResult(jump_linear_phase(k, m, target, j.prev, j.curr), "none")

jump_search(k, m, target, build) ==
    IF m.len = 0
    THEN SearchResult(None, "none")
    ELSE jump_search_with_size(k, m, target, optimal_jump_size(m.len), build)

\* The walk of jump_search_first from the match at i towards index 0, while
\* the element before i equals the target.
RECURSIVE jump_search_first_walk(_, _, _, _, _)
jump_search_first_walk(k, m, target, i, result) ==
    IF ~(i > 0)
    THEN result
    ELSE LET e == Container_get(k, m, i - 1).ret
         IN  IF e # None /\ e.val = target
             THEN jump_search_first_walk(k, m, target, i - 1, Some(i - 1))
             ELSE result

jump_search_first(k, m, target, build) ==
    IF m.len = 0
    THEN SearchResult(None, "none")
    ELSE LET r == jump_search_with_size(k, m, target, optimal_jump_size(m.len), build)
         IN  IF r.fault # "none" THEN r
             ELSE IF r.ret.tag = "Some"
                  THEN SearchResult(jump_search_first_walk(k, m, target, r.ret.val, r.ret),
                                    "none")
                  ELSE SearchResult(None, "none")

\* A jump_search_last that returns the match it finds without walking on.
jump_search_last_no_walk(k, m, target, build) == jump_search(k, m, target, build)

\* The walk of jump_search_last from the match at i towards index n - 1,
\* while the element after i equals the target.
RECURSIVE jump_search_last_walk(_, _, _, _, _)
jump_search_last_walk(k, m, target, i, result) ==
    IF ~(i < m.len - 1)
    THEN result
    ELSE LET e == Container_get(k, m, i + 1).ret
         IN  IF e # None /\ e.val = target
             THEN jump_search_last_walk(k, m, target, i + 1, Some(i + 1))
             ELSE result

jump_search_last(k, m, target, build) ==
    IF m.len = 0
    THEN SearchResult(None, "none")
    ELSE LET r == jump_search_with_size(k, m, target, optimal_jump_size(m.len), build)
         IN  IF r.fault # "none" THEN r
             ELSE IF r.ret.tag = "Some"
                  THEN SearchResult(jump_search_last_walk(k, m, target, r.ret.val, r.ret),
                                    "none")
                  ELSE SearchResult(None, "none")

\* Vec<usize> a call returns (linear_search_all).
Vec(seq) == [tag |-> "Vec", val |-> seq]

\* linear_search: for i in 0..self.len() { if self.get(i)? == target ... }
RECURSIVE linear_search_loop(_, _, _, _)
linear_search_loop(k, m, target, i) ==
    IF ~(i < m.len)
    THEN None
    ELSE LET e == Container_get(k, m, i).ret
         IN  IF e = None THEN None
             ELSE IF e.val = target THEN Some(i)
             ELSE linear_search_loop(k, m, target, i + 1)

linear_search(k, m, target) == linear_search_loop(k, m, target, 0)

\* linear_search_if: the predicate is given by the set of values it accepts.
RECURSIVE linear_search_if_loop(_, _, _, _)
linear_search_if_loop(k, m, predicate, i) ==
    IF ~(i < m.len)
    THEN None
    ELSE LET e == Container_get(k, m, i).ret
         IN  IF e = None THEN None
             ELSE IF e.val \in predicate THEN Some(i)
             ELSE linear_search_if_loop(k, m, predicate, i + 1)

linear_search_if(k, m, predicate) == linear_search_if_loop(k, m, predicate, 0)

\* linear_search_all: every index is visited; a match is pushed to the Vec.
RECURSIVE linear_search_all_loop(_, _, _, _, _)
linear_search_all_loop(k, m, target, i, indices) ==
    IF ~(i < m.len)
    THEN indices
    ELSE LET e == Container_get(k, m, i).ret
         IN  linear_search_all_loop(k, m, target, i + 1,
                                    IF e # None /\ e.val = target
                                    THEN Append(indices, i) ELSE indices)

linear_search_all(k, m, target) == Vec(linear_search_all_loop(k, m, target, 0, <<>>))

\* A reverse_linear_search that scans from the front.
reverse_linear_search_forward(k, m, target) == linear_search(k, m, target)

\* reverse_linear_search: for i in (0..self.len()).rev(); `left` indices are
\* still to be visited, the next one is left - 1.
RECURSIVE reverse_linear_search_loop(_, _, _, _)
reverse_linear_search_loop(k, m, target, left) ==
    IF left = 0
    THEN None
    ELSE LET i == left - 1
             e == Container_get(k, m, i).ret
         IN  IF e = None THEN None
             ELSE IF e.val = target THEN Some(i)
             ELSE reverse_linear_search_loop(k, m, target, i)

reverse_linear_search(k, m, target) ==
    IF m.len = 0 THEN None ELSE reverse_linear_search_loop(k, m, target, m.len)

\* ------------------------------------------- binary search, round by round
\* Ordering, and the closure binary_search_by takes: a function from the
\* element to an Ordering. binary_search, _first and _last compare the
\* element with the target.
Orderings == {"Less", "Equal", "Greater"}
compare_with(target, keys) == [x \in keys |-> cmp(x, target)]

\* The locals of binary_search, binary_search_by, binary_search_first and
\* binary_search_last on entry to the loop (the container is not empty):
\* low = 0, high = self.len() - 1, result = None. `mid` and `got` keep the
\* latest probe, `rounds` counts the probes made.
binary_search_locals(m, fn, arg, f) ==
    [pc |-> "binary_loop", fn |-> fn, arg |-> arg, f |-> f,
     low |-> 0, high |-> m.len - 1, result |-> None,
     mid |-> 0, got |-> None, rounds |-> 0, ret |-> None, fault |-> "none"]

\* A round that computes high = mid - 1 without the `if mid == 0 { break; }`
\* before it: the subtraction overflows at mid = 0.
binary_search_round_unguarded(k, m, fr) ==
    LET leave == [fr EXCEPT !.pc = "binary_return", !.ret = fr.result]
    IN  IF ~(fr.low <= fr.high)
        THEN leave
        ELSE LET mid == fr.low + (fr.high - fr.low) \div 2
                 e == Container_get(k, m, mid).ret
                 probed == [fr EXCEPT !.mid = mid, !.got = e, !.rounds = @ + 1]
                 found == [probed EXCEPT !.result = Some(mid)]
                 underflow == [probed EXCEPT !.pc = "binary_return", !.ret = Panicked,
                                             !.fault = "arithmetic_overflow"]
                 left == IF sub_overflows(mid, 1) THEN underflow
                         ELSE [probed EXCEPT !.high = mid - 1]
                 left_found == IF sub_overflows(mid, 1) THEN underflow
                               ELSE [found EXCEPT !.high = mid - 1]
             IN  IF e = None
                 THEN [probed EXCEPT !.pc = "binary_return", !.ret = None]
                 ELSE CASE fr.f[e.val] = "Equal" ->
                               (CASE fr.fn = "binary_search_first" -> left_found
                                  [] fr.fn = "binary_search_last" ->
                                         [found EXCEPT !.low = mid + 1]
                                  [] OTHER ->
                                         [probed EXCEPT !.pc = "binary_return",
                                                        !.ret = Some(mid)])
                        [] fr.f[e.val] = "Less" -> [probed EXCEPT !.low = mid + 1]
                        [] OTHER -> left

\* One round of `while low <= high { ... }` from the locals fr: the locals
\* after it, or the return (pc "binary_return", ret the value returned).
\* binary_search and binary_search_by return None after the loop, _first and
\* _last return result (None unless a match was met).
binary_search_round(k, m, fr) ==
    LET leave == [fr EXCEPT !.pc = "binary_return", !.ret = fr.result]
    IN  IF ~(fr.low <= fr.high)
        THEN leave
        ELSE LET mid == fr.low + (fr.high - fr.low) \div 2
                 e == Container_get(k, m, mid).ret
                 probed == [fr EXCEPT !.mid = mid, !.got = e, !.rounds = @ + 1]
                 found == [probed EXCEPT !.result = Some(mid)]
                 left == IF mid = 0
                         THEN [probed EXCEPT !.pc = "binary_return", !.ret = probed.result]
                         ELSE [probed EXCEPT !.high = mid - 1]
                 left_found == IF mid = 0
                               THEN [found EXCEPT !.pc = "binary_return", !.ret = Some(mid)]
                               ELSE [found EXCEPT !.high = mid - 1]
             IN  IF e = None
                 THEN [probed EXCEPT !.pc = "binary_return", !.ret = None]
                 ELSE CASE fr.f[e.val] = "Equal" ->
                               (CASE fr.fn = "binary_search_first" -> left_found
                                  [] fr.fn = "binary_search_last" ->
                                         [found EXCEPT !.low = mid + 1]
                                  [] OTHER ->
                                         [probed EXCEPT !.pc = "binary_return",
                                                        !.ret = Some(mid)])
                        [] fr.f[e.val] = "Less" -> [probed EXCEPT !.low = mid + 1]
                        [] OTHER -> left

\* ---------------------------------------------- jump search, round by round
\* The locals of jump_search_with_size on entry to the jump phase (n and
\* jump_size are not 0): prev = 0, curr = min(jump_size, n) - 1.
jump_search_locals(m, target, jump_size, build) ==
    [pc |-> "jump_loop", target |-> target, jump_size |-> jump_size, build |-> build,
     prev |-> 0, curr |-> Min(jump_size, m.len) - 1, ret |-> None, fault |-> "none"]

\* One round of `while curr < n && self.get(curr)? < target { ... }` from the
\* locals fr: the locals after it; pc is "linear_loop" when the loop is left
\* (by its condition or by the break), "jump_return" on the early return of
\* `?` and on a panic.
jump_round(k, m, fr) ==
    LET n == m.len
        e == Container_get(k, m, fr.curr).ret
        prev1 == fr.curr + 1
        curr1 == Min(wrapping_add(fr.curr, fr.jump_size), n - 1)
        panic == [fr EXCEPT !.pc = "jump_return", !.ret = Panicked,
                            !.fault = "arithmetic_overflow"]
    IN  IF ~(fr.curr < n) THEN [fr EXCEPT !.pc = "linear_loop"]
        ELSE IF e = None THEN [fr EXCEPT !.pc = "jump_return", !.ret = None]
        ELSE IF ~(e.val < fr.target) THEN [fr EXCEPT !.pc = "linear_loop"]
        ELSE IF add_overflows(fr.curr, fr.jump_size) /\ fr.build = "debug" THEN panic
        ELSE IF curr1 = n - 1 /\ sub_overflows(n, fr.jump_size) /\ fr.build = "debug"
             THEN panic
        ELSE IF curr1 = n - 1 /\ prev1 > wrapping_sub(n, fr.jump_size)
             THEN [fr EXCEPT !.pc = "linear_loop", !.prev = prev1, !.curr = curr1]
             ELSE [fr EXCEPT !.prev = prev1, !.curr = curr1]

\* One round of `while prev <= curr && prev < n { match ... }`: the locals
\* after it, or the return.
linear_round(k, m, fr) ==
    IF ~(fr.prev <= fr.curr /\ fr.prev < m.len)
    THEN [fr EXCEPT !.pc = "jump_return", !.ret = None]
    ELSE LET e == Container_get(k, m, fr.prev).ret
         IN  IF e = None THEN [fr EXCEPT !.pc = "jump_return", !.ret = None]
             ELSE CASE cmp(e.val, fr.target) = "Equal" ->
                           [fr EXCEPT !.pc = "jump_return", !.ret = Some(fr.prev)]
                    [] cmp(e.val, fr.target) = "Greater" ->
                           [fr EXCEPT !.pc = "jump_return", !.ret = None]
                    [] OTHER -> [fr EXCEPT !.prev = fr.prev + 1]

\* Sequences of values of length at most n.
SeqsUpTo(n) == UNION {[1..k -> Values] : k \in 0..n}

VARIABLES
    kind,       \* the object under observation: "DynamicArray", "Array",
                \* "DynamicArrayIter"; "none" before it exists, "dropped" after
    ptr,        \* its ptr field (NULL or an address)
    capacity,   \* its capacity field
    len,        \* its len field
    mem,        \* the slots of the block at ptr
    heap,       \* live allocations: address -> number of elements (0: none)
    ub,         \* undefined behaviour and leaks committed so far
    fault,      \* "none", or the panic that ended the program
    last,       \* the latest call: its name, arguments, return value, drops
    run,        \* history: the pushes-then-pops run in progress, if any
    pushes_from_new,  \* history: built from new() by pushes alone
    recent,     \* history: growth and shrinkage by the latest calls
    iter_index, \* the index field (cursor) of the DynamicArrayIter
    source,     \* history: the elements the container held at into_iter
    yielded,    \* history: the values next() has returned, in order
    frame       \* the call in progress, if it is followed step by step: its
                \* position (pc) and its local variables

vars ==
    <<kind, ptr, capacity, len, mem, heap, ub, fault, last, run, pushes_from_new, recent,
      iter_index, source, yielded, frame>>

\* No call is in progress.
NoFrame == [pc |-> "idle"]

Self ==
    [ptr |-> ptr, capacity |-> capacity, len |-> len, mem |-> mem, heap |-> heap, ub |-> ub]

Call(op, arg, o) ==
    [op |-> op, arg |-> arg, ret |-> o.ret, dropped |-> o.dropped]

\* History since construction, kept while it has the shape "at most MaxRun
\* pushes, then pops": the values pushed, and the results of the pops that
\* followed them. Any other call, a push that did not store its value, or a
\* push after a pop, ends the run for good.
Fresh == [phase |-> "push", pushed |-> <<>>, popped |-> <<>>]
Idle == [phase |-> "idle", pushed |-> <<>>, popped |-> <<>>]

RunAfter(op, arg, o) ==
    CASE op = "push" /\ o.ret \in {Unit, Ok} /\ run.phase = "push"
                     /\ Len(run.pushed) < MaxRun ->
             [run EXCEPT !.pushed = @ \o arg]
      [] op = "pop" /\ run.phase # "idle" /\ Len(run.popped) <= Len(run.pushed) ->
             [run EXCEPT !.phase = "pop", !.popped = Append(@, o.ret)]
      [] OTHER -> Idle

\* History: the container was constructed with capacity 0 (DynamicArray::new())
\* and every call since was a push that returned.
PushesFromNewAfter(op, o) == pushes_from_new /\ op = "push" /\ o.ret = Unit

\* History of the latest calls, as far as growth and shrinkage go:
\*   "grew"          the latest call was a push that raised the capacity
\*   "shrunk_grew"   the same, directly after a shrink_to_fit that lowered it
\*   "shrunk_pushed" a push that kept the capacity, directly after such a shrink
\*   "grew_popped"   a pop directly after a push that raised the capacity
\*   "shrunk"        the latest call was a shrink_to_fit that lowered the capacity
\* A shrink_to_fit that keeps the capacity leaves the history as it is.
RecentAfter(op, o) ==
    CASE op = "push" /\ o.fault = "none" ->
             IF o.m.capacity > capacity
             THEN (IF recent = "shrunk" THEN "shrunk_grew" ELSE "grew")
             ELSE (IF recent = "shrunk" THEN "shrunk_pushed" ELSE "none")
      [] op = "pop" /\ recent \in {"grew", "shrunk_grew"} -> "grew_popped"
      [] op = "shrink_to_fit" /\ o.fault = "none" ->
             IF o.m.capacity < capacity THEN "shrunk" ELSE recent
      [] OTHER -> "none"

\* The container and the histories after a call with outcome o.
Recorded(op, arg, o) ==
    /\ ptr' = o.m.ptr
    /\ capacity' = o.m.capacity
    /\ len' = o.m.len
    /\ mem' = o.m.mem
    /\ heap' = o.m.heap
    /\ ub' = o.m.ub
    /\ fault' = o.fault
    /\ last' = Call(op, arg, o)
    /\ run' = RunAfter(op, arg, o)
    /\ pushes_from_new' = PushesFromNewAfter(op, o)
    /\ recent' = RecentAfter(op, o)
    /\ UNCHANGED <<kind, iter_index, source, yielded>>

\* The variables after a call with outcome o, taken as one step.
Becomes(op, arg, o) == Recorded(op, arg, o) /\ UNCHANGED frame

\* The variables when the call in progress ends with outcome o.
Returns(op, arg, o) == Recorded(op, arg, o) /\ frame' = NoFrame

\* The variables after a query with outcome o: a query is not recorded in the
\* history; what it returns is a function of the state it is asked in.
Observes(o) ==
    /\ ptr' = o.m.ptr
    /\ capacity' = o.m.capacity
    /\ len' = o.m.len
    /\ mem' = o.m.mem
    /\ heap' = o.m.heap
    /\ ub' = o.m.ub
    /\ fault' = o.fault
    /\ UNCHANGED <<kind, last, run, pushes_from_new, recent, iter_index, source, yielded,
                   frame>>

Constructed(k, m, op, arg) ==
    /\ kind = k
    /\ ptr = m.ptr
    /\ capacity = m.capacity
    /\ len = m.len
    /\ mem = m.mem
    /\ heap = m.heap
    /\ ub = m.ub
    /\ fault = "none"
    /\ last = [op |-> op, arg |-> arg, ret |-> Unit, dropped |-> <<>>]
    /\ run = Fresh
    /\ pushes_from_new = (k = "DynamicArray" /\ m.capacity = 0)
    /\ recent = "none"
    /\ iter_index = 0
    /\ source = <<>>
    /\ yielded = <<>>
    /\ frame = NoFrame

InitDynamic ==
    \/ Constructed("DynamicArray", DynamicArray_new, "new", <<>>)
    \/ \E cap \in 0..MaxCapacity, a \in Addrs :
           Constructed("DynamicArray", DynamicArray_with_capacity(cap, a),
                       "with_capacity", <<cap>>)

InitArray ==
    \E cap \in 1..MaxCapacity, a \in Addrs :
        Constructed("Array", Array_new(cap, a), "new", <<cap>>)

Init == InitDynamic \/ InitArray

Running(k) == kind = k /\ fault = "none" /\ frame.pc = "idle"

\* Indices a caller may pass: inside the block, at its end and beyond it.
Indices == 0..MaxCapacity

\* ------------------------------------------------- DynamicArray's calls
Push ==
    /\ Running("DynamicArray")
    /\ \E value \in Values, a \in PushAnswers(Self) :
           LET o == DynamicArray_push(Self, value, a)
           IN  /\ o.m.capacity <= MaxCapacity
               /\ Becomes("push", <<value>>, o)

Pop ==
    /\ Running("DynamicArray")
    /\ Becomes("pop", <<>>, DynamicArray_pop(Self))

Get ==
    /\ Running("DynamicArray")
    /\ \E index \in Indices :
           Observes(DynamicArray_get(Self, index))

GetMut ==
    /\ Running("DynamicArray")
    /\ \E index \in Indices :
           Observes(DynamicArray_get_mut(Self, index))

Clear ==
    /\ Running("DynamicArray")
    /\ Becomes("clear", <<>>, DynamicArray_clear(Self))

ShrinkToFit ==
    /\ Running("DynamicArray")
    /\ \E a \in ShrinkAnswers(Self) :
           Becomes("shrink_to_fit", <<>>, DynamicArray_shrink_to_fit(Self, a))

Extend ==
    /\ Running("DynamicArray")
    /\ \E items \in SeqsUpTo(MaxExtend) :
           /\ \A o \in DynamicArray_extend(Self, items) : o.m.capacity <= MaxCapacity
           /\ \E o \in DynamicArray_extend(Self, items) : Becomes("extend", items, o)

\* -------------------------------------------------------- Array's calls
ArrayPush ==
    /\ Running("Array")
    /\ \E value \in Values : Becomes("push", <<value>>, Array_push(Self, value))

ArrayPop ==
    /\ Running("Array")
    /\ Becomes("pop", <<>>, Array_pop(Self))

ArrayGet ==
    /\ Running("Array")
    /\ \E index \in Indices : Observes(Array_get(Self, index))

ArrayGetMut ==
    /\ Running("Array")
    /\ \E index \in Indices : Observes(Array_get_mut(Self, index))

ArraySet ==
    /\ Running("Array")
    /\ \E index \in Indices, value \in Values :
           Becomes("set", <<index, value>>, Array_set(Self, index, value))

ArrayClear ==
    /\ Running("Array")
    /\ Becomes("clear", <<>>, Array_clear(Self))

\* ------------------------------------------- the end of the container
\* The variables after a call that changes what is under observation: the
\* object is now a k with cursor idx; the container's histories end.
Turns(k, op, arg, o, idx, src, yld) ==
    /\ kind' = k
    /\ ptr' = o.m.ptr
    /\ capacity' = o.m.capacity
    /\ len' = o.m.len
    /\ mem' = o.m.mem
    /\ heap' = o.m.heap
    /\ ub' = o.m.ub
    /\ last' = Call(op, arg, o)
    /\ run' = Idle
    /\ pushes_from_new' = FALSE
    /\ recent' = "none"
    /\ iter_index' = idx
    /\ source' = src
    /\ yielded' = yld
    /\ UNCHANGED frame

\* The elements of the container, in index order.
Contents(m) == [i \in 1..m.len |-> deref(m, i - 1)]

\* The container goes out of scope (also when a panic unwinds).
Drop ==
    /\ kind = "DynamicArray"
    /\ Turns("dropped", "drop", <<>>, DynamicArray_drop(Self), iter_index, source, yielded)
    /\ UNCHANGED fault

ArrayDrop ==
    /\ kind = "Array"
    /\ Turns("dropped", "drop", <<>>, Array_drop(Self), iter_index, source, yielded)
    /\ UNCHANGED fault

IntoIter ==
    /\ Running("DynamicArray")
    /\ LET o == DynamicArray_into_iter(Self)
       IN  Turns("DynamicArrayIter", "into_iter", <<>>, o, o.index, Contents(Self), <<>>)
    /\ UNCHANGED fault

IterNext ==
    /\ Running("DynamicArrayIter")
    /\ LET o == DynamicArrayIter_next(Self, iter_index)
       IN  Turns("DynamicArrayIter", "next", <<>>, o, o.index, source,
                 IF o.ret = None THEN yielded ELSE Append(yielded, o.ret.val))
    /\ UNCHANGED fault

IterDrop ==
    /\ kind = "DynamicArrayIter"
    /\ LET o == DynamicArrayIter_drop(Self, iter_index)
       IN  Turns("dropped", "drop_iter", <<>>, o, o.index, source, yielded)
    /\ UNCHANGED fault

Next ==
    \/ Push
    \/ Pop
    \/ Get
    \/ GetMut
    \/ Clear
    \/ ShrinkToFit
    \/ Extend
    \/ ArrayPush
    \/ ArrayPop
    \/ ArrayGet
    \/ ArrayGetMut
    \/ ArraySet
    \/ ArrayClear
    \/ Drop
    \/ ArrayDrop
    \/ IntoIter
    \/ IterNext
    \/ IterDrop

Spec == Init /\ [][Next]_vars

\* ------------------------------------------------ shrink_to_fit at scale
\* shrink_to_fit reads len and capacity only. To meet it at the capacities its
\* thresholds are about, a DynamicArray is taken as with_capacity(cap) leaves
\* it after `filled` pushes (of the values 1, 2, 1, 2, ...) and the pops that
\* bring len down to n.
Element(i) == 1 + (i % 2)

RECURSIVE PushMany(_, _)
PushMany(m, n) ==
    IF m.len >= n THEN m ELSE PushMany(DynamicArray_push(m, Element(m.len), NULL).m, n)

RECURSIVE PopDownTo(_, _)
PopDownTo(m, n) == IF m.len <= n THEN m ELSE PopDownTo(DynamicArray_pop(m).m, n)

InitShrink ==
    \E cap \in 0..MaxShrinkCapacity, a \in Addrs :
        \E n \in 0..cap :
            \E filled \in {n, cap} :
                /\ Constructed("DynamicArray",
                               PopDownTo(PushMany(DynamicArray_with_capacity(cap, a), filled), n),
                               "with_capacity", <<cap>>)

SpecShrink == InitShrink /\ [][ShrinkToFit]_vars

\* ------------------------------------------------------ Array::from_slice
\* No container exists yet; from_slice is called with a slice of at most
\* MaxSlice values and a capacity, and the Array it returns, if any, is the
\* object under observation from then on.
NoContainer ==
    /\ kind = "none"
    /\ ptr = NULL
    /\ capacity = 0
    /\ len = 0
    /\ mem = <<>>
    /\ heap = EmptyHeap
    /\ ub = {}
    /\ fault = "none"
    /\ last = [op |-> "none", arg |-> <<>>, ret |-> Unit, dropped |-> <<>>]
    /\ run = Idle
    /\ pushes_from_new = FALSE
    /\ recent = "none"
    /\ iter_index = 0
    /\ source = <<>>
    /\ yielded = <<>>

InitNone == NoContainer /\ frame = NoFrame

FromSlice ==
    /\ Running("none")
    /\ \E slice \in SeqsUpTo(MaxSlice), cap \in 0..MaxCapacity, a \in AllocAnswers(DynamicArray_new) :
           LET o == Array_from_slice(slice, cap, a)
           IN  /\ Turns(IF o.ret.tag = "Some" THEN "Array" ELSE "none",
                        "from_slice", <<slice, cap>>, o, iter_index, source, yielded)
               /\ fault' = o.fault

SpecFromSlice == InitNone /\ [][FromSlice]_vars

\* -------------------------------------------------- sorted containers
\* The searches are met on containers sorted ascending, duplicates allowed:
\* an Array built by from_slice and a DynamicArray filled by pushes, holding
\* up to MaxSearchLen of the keys 1..5 (the tests' [1, 2, 2, 2, 3, 4, 5] and
\* [5, 5, 5, 5] among them). Targets lie below, between, among and above the
\* keys; jump sizes are 0, 1, up to beyond the length, and usize::MAX.
Keys == {1, 2, 3, 4, 5}
Targets == {0, 1, 2, 3, 4, 5, 6}
JumpSizes == 0..(MaxSearchLen + 2) \cup {USIZE_MAX}

IsSorted(seq) == \A i \in 1..(Len(seq) - 1) : seq[i] <= seq[i + 1]
SortedSeqs(n) == {seq \in UNION {[1..j -> Keys] : j \in 0..n} : IsSorted(seq)}

RECURSIVE PushAll(_, _)
PushAll(m, items) ==
    IF items = <<>> THEN m
    ELSE PushAll(DynamicArray_push(m, Head(items), NULL).m, Tail(items))

InitSorted ==
    \E seq \in SortedSeqs(MaxSearchLen) :
        \/ Constructed("Array", Array_from_slice(seq, MaxSearchLen, 1).m,
                       "from_slice", <<seq, MaxSearchLen>>)
        \/ Constructed("DynamicArray",
                       PushAll(DynamicArray_with_capacity(Len(seq), 1), seq),
                       "with_capacity", <<Len(seq)>>)

\* A search reads the container and leaves it as it is: every search is
\* explored on the container as constructed.
Searchable ==
    /\ kind \in {"Array", "DynamicArray"}
    /\ fault = "none"
    /\ frame.pc = "idle"
    /\ last.op \in {"from_slice", "with_capacity"}

BinarySearch ==
    /\ Searchable
    /\ \E target \in Targets :
           Becomes("binary_search", <<target>>,
                   Returned(Self, binary_search(kind, Self, target)))

BinarySearchFirst ==
    /\ Searchable
    /\ \E target \in Targets :
           Becomes("binary_search_first", <<target>>,
                   Returned(Self, binary_search_first(kind, Self, target)))

BinarySearchLast ==
    /\ Searchable
    /\ \E target \in Targets :
           Becomes("binary_search_last", <<target>>,
                   Returned(Self, binary_search_last(kind, Self, target)))

BinarySearchInsertionPoint ==
    /\ Searchable
    /\ \E target \in Targets :
           Becomes("binary_search_insertion_point", <<target>>,
                   Returned(Self, binary_search_insertion_point(kind, Self, target)))

JumpSearch ==
    /\ Searchable
    /\ \E target \in Targets, build \in Builds :
           LET r == jump_search(kind, Self, target, build)
           IN  Becomes("jump_search", <<target>>, Outcome(Self, r.ret, <<>>, r.fault))

JumpSearchWithSize ==
    /\ Searchable
    /\ \E target \in Targets, jump_size \in JumpSizes, build \in Builds :
           LET r == jump_search_with_size(kind, Self, target, jump_size, build)
           IN  Becomes("jump_search_with_size", <<target, jump_size>>,
                       Outcome(Self, r.ret, <<>>, r.fault))

JumpSearchFirst ==
    /\ Searchable
    /\ \E target \in Targets, build \in Builds :
           LET r == jump_search_first(kind, Self, target, build)
           IN  Becomes("jump_search_first", <<target>>, Outcome(Self, r.ret, <<>>, r.fault))

JumpSearchLast ==
    /\ Searchable
    /\ \E target \in Targets, build \in Builds :
           LET r == jump_search_last(kind, Self, target, build)
           IN  Becomes("jump_search_last", <<target>>, Outcome(Self, r.ret, <<>>, r.fault))

NextSearch ==
    \/ BinarySearch
    \/ BinarySearchFirst
    \/ BinarySearchLast
    \/ BinarySearchInsertionPoint
    \/ JumpSearch
    \/ JumpSearchWithSize
    \/ JumpSearchFirst
    \/ JumpSearchLast

SpecSearch == InitSorted /\ [][NextSearch]_vars

\* ------------------------------------------------ unsorted containers
\* The linear searches, and the index arithmetic of the binary searches, are
\* met on containers in any order: every sequence of up to MaxUnsortedLen of
\* the keys 1..3 ([1, 2, 3, 2, 1, 2] stands for the tests' [1, 2, 3, 2, 4, 2]).
\* A predicate is the set of keys it accepts.
UnsortedKeys == {1, 2, 3}
Predicates == SUBSET UnsortedKeys
UnsortedSeqs(n) == UNION {[1..j -> UnsortedKeys] : j \in 0..n}

InitUnsorted ==
    \E seq \in UnsortedSeqs(MaxUnsortedLen) :
        \/ Constructed("Array", Array_from_slice(seq, MaxUnsortedLen, 1).m,
                       "from_slice", <<seq, MaxUnsortedLen>>)
        \/ Constructed("DynamicArray",
                       PushAll(DynamicArray_with_capacity(Len(seq), 1), seq),
                       "with_capacity", <<Len(seq)>>)

LinearSearch ==
    /\ Searchable
    /\ \E target \in Targets :
           Becomes("linear_search", <<target>>,
                   Returned(Self, linear_search(kind, Self, target)))

LinearSearchIf ==
    /\ Searchable
    /\ \E predicate \in Predicates :
           Becomes("linear_search_if", <<predicate>>,
                   Returned(Self, linear_search_if(kind, Self, predicate)))

LinearSearchAll ==
    /\ Searchable
    /\ \E target \in Targets :
           Becomes("linear_search_all", <<target>>,
                   Returned(Self, linear_search_all(kind, Self, target)))

ReverseLinearSearch ==
    /\ Searchable
    /\ \E target \in Targets :
           Becomes("reverse_linear_search", <<target>>,
                   Returned(Self, reverse_linear_search(kind, Self, target)))

NextLinear ==
    \/ LinearSearch
    \/ LinearSearchIf
    \/ LinearSearchAll
    \/ ReverseLinearSearch

SpecLinear == InitUnsorted /\ [][NextLinear]_vars

\* ------------------------------------------------------- grow at scale
\* Growth is met in two ways: by the pushes on a DynamicArray as constructed
\* (capacities up to MaxCapacity), and by the first statement of grow() alone,
\* which reads self.capacity only, at capacities no buffer can be laid out
\* for here: around usize::MAX / 2, where doubling starts to overflow, and up
\* to usize::MAX. There the push that found len == capacity has called
\* grow(): the container (as many slots as its capacity) is not represented,
\* its capacity is.
GrowCapacities ==
    UNION {{d, USIZE_MAX \div 2 - d, USIZE_MAX \div 2 + d, USIZE_MAX - d} :
               d \in 0..MaxGrowCapacity}

InitGrow ==
    /\ NoContainer
    /\ \E c \in GrowCapacities : frame = [pc |-> "grow", capacity |-> c, new_capacity |-> None]

\* let new_capacity = ...: grow goes on to allocate, or panics.
GrowNewCapacity ==
    /\ frame.pc = "grow"
    /\ LET computed == DynamicArray_grow_new_capacity(frame.capacity)
       IN  /\ frame' = [frame EXCEPT !.pc = IF computed = None THEN "panicked" ELSE "grow_alloc",
                                     !.new_capacity = computed]
           /\ fault' = IF computed = None THEN "capacity_overflow" ELSE "none"
    /\ UNCHANGED <<kind, ptr, capacity, len, mem, heap, ub, last, run, pushes_from_new,
                   recent, iter_index, source, yielded>>

NextGrow == Push \/ GrowNewCapacity

SpecGrow == (InitDynamic \/ InitGrow) /\ [][NextGrow]_vars

\* ------------------------------------------------------ pop step by step
\* pop() followed statement by statement on the containers pushes build: the
\* emptiness check and the decrement of len are one step, the read of the
\* slot and the return the next. No other call runs in between (pop holds
\* &mut self).
PopEnter ==
    /\ kind \in {"DynamicArray", "Array"}
    /\ fault = "none"
    /\ frame.pc = "idle"
    /\ IF len = 0
       THEN Becomes("pop", <<>>, Returned(Self, None))
       ELSE LET m == pop_decrement(Self)
            IN  /\ ptr' = m.ptr
                /\ capacity' = m.capacity
                /\ len' = m.len
                /\ mem' = m.mem
                /\ heap' = m.heap
                /\ ub' = m.ub
                /\ frame' = [pc |-> "pop_read"]
                /\ UNCHANGED <<kind, fault, last, run, pushes_from_new, recent,
                               iter_index, source, yielded>>

PopRead ==
    /\ frame.pc = "pop_read"
    /\ LET r == pop_read(Self)
       IN  Returns("pop", <<>>, Returned(r.m, Some(r.val)))

NextPop == Push \/ ArrayPush \/ PopEnter \/ PopRead

SpecPop == Init /\ [][NextPop]_vars

\* --------------------------------------------- binary search step by step
\* binary_search, binary_search_by, binary_search_first and
\* binary_search_last followed round by round on the containers in any
\* order: the targets lie below, among and above the keys, the closures of
\* binary_search_by are all the functions from the keys to an Ordering.
ProbeTargets == UnsortedKeys \cup {0, 4}
Closures == [UnsortedKeys -> Orderings]

BinaryEnter ==
    /\ Searchable
    /\ \E fn \in {"binary_search", "binary_search_by", "binary_search_first",
                   "binary_search_last"} :
           \E arg \in IF fn = "binary_search_by" THEN Closures ELSE ProbeTargets :
               LET f == IF fn = "binary_search_by" THEN arg
                        ELSE compare_with(arg, UnsortedKeys)
               IN  IF len = 0
                   THEN Becomes(fn, <<arg>>, Returned(Self, None))
                   ELSE /\ frame' = binary_search_locals(Self, fn, arg, f)
                        /\ UNCHANGED <<kind, ptr, capacity, len, mem, heap, ub, fault, last,
                                       run, pushes_from_new, recent, iter_index, source,
                                       yielded>>

BinaryRound ==
    /\ frame.pc = "binary_loop"
    /\ frame' = binary_search_round(kind, Self, frame)
    /\ UNCHANGED <<kind, ptr, capacity, len, mem, heap, ub, fault, last, run,
                   pushes_from_new, recent, iter_index, source, yielded>>

BinaryReturn ==
    /\ frame.pc = "binary_return"
    /\ Returns(frame.fn, <<frame.arg>>, Outcome(Self, frame.ret, <<>>, frame.fault))

NextBinary == BinaryEnter \/ BinaryRound \/ BinaryReturn

SpecBinary == InitUnsorted /\ [][NextBinary]_vars

\* ----------------------------------------------- jump search step by step
\* jump_search_with_size followed round by round on sorted containers of up
\* to MaxJumpLen of the keys 1..3, for targets below, among and above the
\* keys and jump sizes 0, 1, up to beyond the length, and usize::MAX. A call
\* in progress keeps running: its next round is always taken eventually.
JumpKeys == {1, 2, 3}
JumpTargets == JumpKeys \cup {0, 4}
StepJumpSizes == 0..(MaxJumpLen + 2) \cup {USIZE_MAX}

InitJump ==
    \E seq \in {q \in UNION {[1..j -> JumpKeys] : j \in 0..MaxJumpLen} : IsSorted(q)} :
        \/ Constructed("Array", Array_from_slice(seq, MaxJumpLen, 1).m,
                       "from_slice", <<seq, MaxJumpLen>>)
        \/ Constructed("DynamicArray",
                       PushAll(DynamicArray_with_capacity(Len(seq), 1), seq),
                       "with_capacity", <<Len(seq)>>)

JumpEnter ==
    /\ Searchable
    /\ \E target \in JumpTargets, jump_size \in StepJumpSizes, build \in Builds :
           IF len = 0 \/ jump_size = 0
           THEN Becomes("jump_search_with_size", <<target, jump_size>>, Returned(Self, None))
           ELSE /\ frame' = jump_search_locals(Self, target, jump_size, build)
                /\ UNCHANGED <<kind, ptr, capacity, len, mem, heap, ub, fault, last, run,
                               pushes_from_new, recent, iter_index, source, yielded>>

JumpRound ==
    /\ frame.pc = "jump_loop"
    /\ frame' = jump_round(kind, Self, frame)
    /\ UNCHANGED <<kind, ptr, capacity, len, mem, heap, ub, fault, last, run,
                   pushes_from_new, recent, iter_index, source, yielded>>

LinearRound ==
    /\ frame.pc = "linear_loop"
    /\ frame' = linear_round(kind, Self, frame)
    /\ UNCHANGED <<kind, ptr, capacity, len, mem, heap, ub, fault, last, run,
                   pushes_from_new, recent, iter_index, source, yielded>>

JumpReturn ==
    /\ frame.pc = "jump_return"
    /\ Returns("jump_search_with_size", <<frame.target, frame.jump_size>>,
               Outcome(Self, frame.ret, <<>>, frame.fault))

NextJump == JumpEnter \/ JumpRound \/ LinearRound \/ JumpReturn

SpecJump == InitJump /\ [][NextJump]_vars /\ WF_vars(NextJump)

\* ---------------------------------------------------------------- claims
Dynamic == kind = "DynamicArray"
Container == kind \in {"DynamicArray", "Array"}

\* C1: for a DynamicArray, 0 <= len <= capacity holds after construction and
\* after every call (new, with_capacity, push, pop, clear, shrink_to_fit,
\* extend, also in the state a panic leaves), and push never reports failure:
\* its only outcomes are the unit return and the fatal fault of grow; every
\* push that returns has increased len by exactly 1 and stored its value in
\* the slot at the old len.
C1_LenWithinCapacity ==
    /\ [](Dynamic => 0 <= len /\ len <= capacity /\ capacity = Len(mem))
    /\ [][Dynamic /\ last'.op = "push" =>
            /\ last'.ret \in {Unit, Panicked}
            /\ (last'.ret = Panicked) = (fault' \in {"alloc_failed", "capacity_overflow"})
            /\ last'.ret = Unit =>
                  /\ len' = len + 1
                  /\ len < Len(mem')
                  /\ mem'[len + 1] = Live(last'.arg[1])]_vars

\* A push found the array full at capacity 4 and stored the fifth value.
C1_Witness ==
    /\ Dynamic /\ last.op = "push" /\ last.ret = Unit
    /\ len = 5 /\ capacity = 8 /\ mem[5] = Live(2) /\ recent = "grew"

\* C2: when a freshly constructed Array or DynamicArray receives k pushes that
\* store their values (k <= capacity for an Array, k <= MaxRun here) followed
\* by pops, the i-th pop returns the value of the (k + 1 - i)-th push, len is
\* k minus the number of pops, after k pops len is 0 and one further pop
\* returns None.
C2_StackDiscipline ==
    run.phase # "idle" =>
        LET k == Len(run.pushed)
            j == Len(run.popped)
        IN  /\ \A i \in 1..j :
                   run.popped[i] = IF i <= k THEN Some(run.pushed[k + 1 - i]) ELSE None
            /\ len = IF j <= k THEN k - j ELSE 0

\* Three pushes from new() (two growths), three pops and one more pop.
C2_Witness ==
    /\ Dynamic /\ run.phase = "pop"
    /\ run.pushed = <<1, 2, 2>>
    /\ run.popped = <<Some(2), Some(2), Some(1), None>>
    /\ capacity = 4 /\ len = 0

\* The smallest power of two that is >= k, for k >= 1.
RECURSIVE Pow2AtLeast(_, _)
Pow2AtLeast(k, p) == IF p >= k THEN p ELSE Pow2AtLeast(k, 2 * p)
SmallestPow2AtLeast(k) == Pow2AtLeast(k, 1)

\* C3: starting from DynamicArray::new() (capacity 0), after k >= 1 pushes and
\* no other call, capacity is the smallest power of two >= k; the first push
\* establishes capacity 1 and every later growth exactly doubles the capacity.
C3_GrowthDoubling ==
    /\ [](pushes_from_new /\ len >= 1 => capacity = SmallestPow2AtLeast(len))
    /\ [][Dynamic /\ last'.op = "push" /\ capacity' # capacity =>
            capacity' = IF capacity = 0 THEN 1 ELSE 2 * capacity]_vars

\* Six pushes from new(): capacity went 1, 2, 4, 8.
C3_Witness == pushes_from_new /\ len = 6 /\ capacity = 8 /\ last.op = "push"

\* The capacity the shrink policy prescribes for (len, capacity).
PolicyCapacity(l, c) ==
    IF l = 0 /\ c > 0 THEN 0
    ELSE IF l < c \div 4 /\ c > 4 THEN Max(c \div 2, l)
    ELSE c

\* C4: a shrink_to_fit that returns leaves capacity as the shrink policy
\* prescribes for (len, capacity): 0 if len = 0 and capacity > 0; else
\* max(capacity / 2, len) if len < capacity / 4 and capacity > 4; else the
\* capacity it found. len and the values at [0, len) are unchanged. (capacity
\* 100 / len 24 gives 50, capacity 100 / len 30 stays 100, capacity 4 / len 1
\* stays 4.)
C4_ShrinkPolicy ==
    [][last'.op = "shrink_to_fit" /\ last'.ret = Unit =>
          /\ capacity' = PolicyCapacity(len, capacity)
          /\ len' = len
          /\ \A i \in 1..len : i <= Len(mem') /\ mem'[i] = mem[i] /\ mem[i].st = "init"
          /\ (capacity = 100 /\ len = 24 => capacity' = 50)
          /\ (capacity = 100 /\ len = 30 => capacity' = 100)
          /\ (capacity = 4 /\ len = 1 => capacity' = 4)]_vars

\* The array of test_shrink_behavior after shrink_to_fit: capacity 50, the 24
\* elements in place.
C4_Witness ==
    /\ last.op = "shrink_to_fit" /\ last.ret = Unit
    /\ capacity = 50 /\ len = 24 /\ Len(mem) = 50
    /\ \A i \in 1..24 : mem[i] = Live(Element(i - 1))

\* C5 as claimed: with shrink_to_fit called after every operation, a push that
\* raised the capacity, followed (with or without one pop) by shrink_to_fit,
\* is never followed by a reduction of the capacity, and a shrink_to_fit that
\* lowered the capacity is never followed by a growth on the very next push.
C5_NoThrashingAnywhere ==
    [][/\ (/\ Dynamic /\ recent \in {"grew", "shrunk_grew", "grew_popped"}
           /\ last'.op = "shrink_to_fit" /\ last'.ret = Unit) => capacity' >= capacity
       /\ (/\ Dynamic /\ recent = "shrunk"
           /\ last'.op = "push" /\ last'.ret = Unit) => capacity' = capacity]_vars

\* C5, amended: the same for a non-empty array. A push that raised the
\* capacity, followed (with or without one pop) by a shrink_to_fit that finds
\* len > 0, is never followed by a reduction of the capacity; a shrink_to_fit
\* that lowered the capacity and left it above 0 is never followed by a growth
\* on the very next push. (At len 0 shrink_to_fit frees the buffer, and the
\* next push allocates again.)
C5_NoThrashingNonEmpty ==
    [][/\ (/\ Dynamic /\ recent \in {"grew", "shrunk_grew", "grew_popped"}
           /\ len > 0
           /\ last'.op = "shrink_to_fit" /\ last'.ret = Unit) => capacity' >= capacity
       /\ (/\ Dynamic /\ recent = "shrunk"
           /\ capacity > 0
           /\ last'.op = "push" /\ last'.ret = Unit) => capacity' = capacity]_vars

\* A push grew the buffer from 4 to 8, one pop followed, and shrink_to_fit
\* kept capacity 8.
C5_Witness ==
    /\ Dynamic /\ recent = "grew_popped"
    /\ last.op = "shrink_to_fit" /\ last.ret = Unit
    /\ capacity = 8 /\ len = 4

GetOutcomes(index) ==
    IF Dynamic
    THEN {DynamicArray_get(Self, index), DynamicArray_get_mut(Self, index)}
    ELSE {Array_get(Self, index), Array_get_mut(Self, index)}

\* C7: in every state of an Array or DynamicArray and for every index, get and
\* get_mut return the live element stored in slot index when index < len and
\* None when index >= len; they never panic and change nothing (len,
\* capacity, the slots, the allocation). Slots in [len, capacity), vacated by
\* pop or clear or never written, are never returned.
C7_GetAbsentBeyondLen ==
    Container =>
    \A index \in Indices :
        \A o \in GetOutcomes(index) :
            /\ o.fault = "none"
            /\ o.m = Self
            /\ o.dropped = <<>>
            /\ index < len =>
                  /\ index < Len(mem)
                  /\ mem[index + 1].st = "init"
                  /\ o.ret = Some(mem[index + 1].v)
            /\ index >= len => o.ret = None

\* After a pop, slot 1 is vacated, slot 0 holds a live value: get(0) returns
\* it, get(1) and get(2) return None.
C7_Witness ==
    /\ Dynamic /\ last.op = "pop" /\ last.ret = Some(1)
    /\ len = 1 /\ capacity = 2 /\ mem[2] = Moved
    /\ DynamicArray_get(Self, 0).ret = Some(2)
    /\ DynamicArray_get(Self, 1).ret = None
    /\ DynamicArray_get_mut(Self, 2).ret = None

\* C8: Array::set(index, value) panics exactly when index >= len, and then
\* len, capacity and the slots are unchanged. When index < len it releases
\* the previous occupant of slot index exactly once (it is the one value
\* dropped, nothing is leaked or released twice), stores value in slot index,
\* and leaves len, capacity, ptr and every other slot unchanged.
C8_SetBounds ==
    [][kind = "Array" /\ last'.op = "set" =>
          LET index == last'.arg[1]
              value == last'.arg[2]
          IN  /\ (fault' # "none") = (index >= len)
              /\ index >= len =>
                    /\ fault' = "index_out_of_bounds" /\ last'.ret = Panicked
                    /\ len' = len /\ capacity' = capacity /\ ptr' = ptr
                    /\ mem' = mem /\ heap' = heap /\ ub' = ub
              /\ index < len =>
                    /\ last'.ret = Unit
                    /\ mem[index + 1].st = "init"
                    /\ last'.dropped = <<mem[index + 1].v>>
                    /\ ub' = {}
                    /\ mem' = [mem EXCEPT ![index + 1] = Live(value)]
                    /\ len' = len /\ capacity' = capacity /\ ptr' = ptr
                    /\ heap' = heap]_vars

\* set(1, 2) on a three-element Array replaced a 1 by a 2 and dropped the 1.
C8_Witness ==
    /\ kind = "Array" /\ last.op = "set" /\ last.arg = <<1, 2>> /\ last.ret = Unit
    /\ last.dropped = <<1>> /\ len = 3 /\ mem[2] = Live(2) /\ ub = {}

\* C9: clear() on an Array or DynamicArray releases every element of [0, len)
\* exactly once (the values dropped are those of the slots, from the last to
\* the first; every such slot is left moved-out; nothing is released twice),
\* sets len to 0 and leaves capacity, ptr and the allocation unchanged. A push
\* directly after clear, when it returns, stores its value: len is 1 and
\* get(0) is the pushed value.
C9_ClearReleasesAll ==
    [][/\ last'.op = "clear" =>
             /\ fault' = "none" /\ last'.ret = Unit
             /\ len' = 0
             /\ capacity' = capacity /\ ptr' = ptr /\ heap' = heap
             /\ Len(last'.dropped) = len
             /\ \A i \in 1..len :
                    /\ mem[i].st = "init"
                    /\ last'.dropped[len + 1 - i] = mem[i].v
                    /\ mem'[i] = Moved
             /\ \A i \in (len + 1)..Len(mem) : mem'[i] = mem[i]
             /\ Len(mem') = Len(mem)
             /\ ub' = {}
       /\ (last.op = "clear" /\ last'.op = "push" /\ last'.ret \in {Unit, Ok}) =>
             /\ len' = 1
             /\ (IF Dynamic THEN DynamicArray_get(Self, 0)
                            ELSE Array_get(Self, 0))'.ret = Some(last'.arg[1])
       /\ (last.op = "clear" /\ last'.op = "push" /\ kind = "Array") =>
             last'.ret = Ok]_vars

\* clear() released the three elements of an Array of capacity 5.
C9_Witness ==
    /\ kind = "Array" /\ last.op = "clear" /\ last.dropped = <<2, 1, 1>>
    /\ len = 0 /\ capacity = 5 /\ heap[ptr] = 5
    /\ mem[1] = Moved /\ mem[3] = Moved /\ mem[4] = Uninit

\* C10: Array::push(value) with len = capacity returns Err(value), the value
\* it was given, and leaves len, capacity and every slot unchanged; with
\* len < capacity it returns Ok(()), stores value in the slot at len and
\* raises len by 1, leaving capacity and the other slots unchanged.
C10_PushFullReturnsValue ==
    [][kind = "Array" /\ last'.op = "push" =>
          LET value == last'.arg[1]
          IN  /\ fault' = "none"
              /\ capacity' = capacity /\ ptr' = ptr /\ heap' = heap
              /\ len >= capacity =>
                    /\ last'.ret = Err(value)
                    /\ len' = len /\ mem' = mem /\ ub' = ub
              /\ len < capacity =>
                    /\ last'.ret = Ok
                    /\ len' = len + 1
                    /\ mem' = [mem EXCEPT ![len + 1] = Live(value)]
                    /\ ub' = ub]_vars

\* A full Array of capacity 3 rejected the value 2 and handed it back.
C10_Witness ==
    /\ kind = "Array" /\ last.op = "push" /\ last.ret = Err(2)
    /\ len = 3 /\ capacity = 3 /\ \A i \in 1..3 : mem[i] = Live(1)

\* C11: for a fixed-capacity Array the capacity is the one given to the
\* constructor and no call (push, pop, set, get_mut, get, clear) ever changes
\* it, and 0 <= len <= capacity holds in every state.
C11_FixedCapacity ==
    /\ (kind = "Array" => capacity = last.arg[1])
    /\ [][kind = "Array" /\ kind' = "Array" => capacity' = capacity]_vars
    /\ [](kind = "Array" => 0 <= len /\ len <= capacity /\ capacity = Len(mem))

\* An Array of capacity 4 after pushes, a pop and a set.
C11_Witness ==
    /\ kind = "Array"
    /\ capacity = 4
    /\ len = 2
    /\ mem[3].st = "moved"
    /\ last.op = "set"
    /\ last.ret = Unit

\* C12 as claimed: from_slice(source, capacity) returns None if and only if
\* source.len() > capacity; for every source with source.len() <= capacity it
\* returns an Array with the given capacity, len = source.len() and get(i)
\* equal to source[i] for every i < len (the allocator not failing).
C12_FromSliceAnyCapacity ==
    [][last'.op = "from_slice" /\ fault' # "alloc_failed" =>
          LET slice == last'.arg[1]
              cap == last'.arg[2]
          IN  /\ (last'.ret = None) = (Len(slice) > cap)
              /\ Len(slice) <= cap =>
                    /\ last'.ret.tag = "Some" /\ kind' = "Array"
                    /\ capacity' = cap
                    /\ len' = Len(slice)
                    /\ \A i \in 0..(Len(slice) - 1) :
                           Array_get(Self, i)'.ret = Some(slice[i + 1])]_vars

\* C12, amended: from_slice(source, capacity) returns None if and only if
\* source.len() > capacity; with source.len() <= capacity and capacity >= 1
\* it returns an Array with the given capacity, len = source.len() and get(i)
\* equal to source[i] for every i < len, nothing leaked; with capacity 0 and
\* an empty source it panics, as Array::new(0) does (the allocator not
\* failing).
C12_FromSlice ==
    [][last'.op = "from_slice" /\ fault' # "alloc_failed" =>
          LET slice == last'.arg[1]
              cap == last'.arg[2]
          IN  /\ (last'.ret = None) = (Len(slice) > cap)
              /\ (last'.ret = Panicked) = (Len(slice) <= cap /\ cap = 0)
              /\ (last'.ret = Panicked) = (fault' = "zero_capacity")
              /\ last'.ret.tag # "Some" => kind' = "none" /\ heap' = EmptyHeap
              /\ (Len(slice) <= cap /\ cap >= 1) =>
                    /\ last'.ret.tag = "Some" /\ kind' = "Array"
                    /\ capacity' = cap
                    /\ len' = Len(slice)
                    /\ ub' = {}
                    /\ \A i \in 0..(Len(slice) - 1) :
                           Array_get(Self, i)'.ret = Some(slice[i + 1])
                    /\ Array_get(Self', Len(slice)).ret = None]_vars

\* from_slice(&[1, 2, 1], 3): the slice fills the capacity exactly.
C12_Witness ==
    /\ kind = "Array"
    /\ last.op = "from_slice" /\ last.arg = <<(<<1, 2, 1>>), 3>>
    /\ capacity = 3 /\ len = 3
    /\ Array_get(Self, 2).ret = Some(1)

Iterating == kind = "DynamicArrayIter"

\* C13: the consuming iterator of a DynamicArray of length n yields the n
\* elements in ascending index order, one per next() call (the call made at
\* cursor i < n returns element i and advances the cursor by one), then
\* reports exhaustion (the call made at cursor n returns None and leaves the
\* cursor); cursor <= len holds in every state, and once next() has returned
\* None every later next() returns None as well.
C13_IteratorYieldsInOrder ==
    /\ [](Iterating =>
            /\ iter_index <= len /\ Len(source) = len
            /\ yielded = SubSeq(source, 1, iter_index))
    /\ [][Iterating /\ last'.op = "next" =>
            /\ len' = len /\ source' = source
            /\ iter_index < len =>
                  /\ last'.ret = Some(source[iter_index + 1])
                  /\ iter_index' = iter_index + 1
            /\ iter_index >= len =>
                  /\ last'.ret = None
                  /\ iter_index' = iter_index
                  /\ yielded' = source
            /\ (last.op = "next" /\ last.ret = None) => last'.ret = None]_vars

\* The iterator of [2, 1, 1] has yielded 2, 1, 1 and then None.
C13_Witness ==
    /\ Iterating
    /\ source = <<2, 1, 1>> /\ yielded = <<2, 1, 1>>
    /\ iter_index = 3 /\ len = 3
    /\ last.op = "next" /\ last.ret = None

\* C14: into_iter hands the buffer and its elements to the iterator and the
\* container does no cleanup of its own (nothing is dropped or deallocated by
\* the conversion); while the iterator lives the elements before the cursor
\* are moved out and those from the cursor to len are live; after j calls of
\* next() (0 <= j <= len) the iterator's destructor releases exactly the
\* elements [j, len), so every element is released exactly once, and it
\* deallocates the buffer exactly once if capacity > 0 and never if
\* capacity = 0.
C14_IteratorReleasesOnce ==
    /\ [](Iterating =>
            /\ ub = {}
            /\ Len(mem) = capacity
            /\ capacity > 0 => ptr # NULL /\ heap[ptr] = capacity
            /\ capacity = 0 => ptr = NULL /\ heap = EmptyHeap
            /\ \A i \in 1..len :
                   mem[i] = IF i <= iter_index THEN Moved ELSE Live(source[i]))
    /\ [][Dynamic /\ last'.op = "into_iter" =>
            /\ Iterating'
            /\ Self' = Self
            /\ last'.dropped = <<>>
            /\ iter_index' = 0
            /\ source' = Contents(Self)]_vars
    /\ [][Iterating /\ last'.op = "drop_iter" =>
            /\ kind' = "dropped"
            /\ Len(yielded) = iter_index
            /\ last'.dropped = SubSeq(source, iter_index + 1, len)
            /\ yielded \o last'.dropped = source
            /\ ub' = {}
            /\ heap' = EmptyHeap
            /\ capacity = 0 => heap = EmptyHeap]_vars

\* The iterator of [1, 2, 2, 1] was dropped after two calls of next(): its
\* destructor released the other two elements and the buffer.
C14_Witness ==
    /\ kind = "dropped" /\ last.op = "drop_iter"
    /\ source = <<1, 2, 2, 1>> /\ yielded = <<1, 2>>
    /\ last.dropped = <<2, 1>>
    /\ capacity = 4 /\ heap = EmptyHeap /\ ub = {}

\* How often v occurs in a sequence, and how many live slots of a block hold v.
Count(seq, v) == Len(SelectSeq(seq, LAMBDA x : x = v))
LiveCount(block, v) ==
    Len(SelectSeq(block, LAMBDA slot : slot.st = "init" /\ slot.v = v))

\* The values a call was handed to store, and the values it released: handed
\* back to the caller (pop's Some, Array::push's Err) or dropped.
ValuesIn(call) ==
    CASE call.op = "push" -> call.arg
      [] call.op = "set" -> <<call.arg[2]>>
      [] call.op = "extend" -> call.arg
      [] OTHER -> <<>>

ValuesOut(call) ==
    (IF call.op \in {"push", "pop", "next"} /\ call.ret.tag \in {"Some", "Err"}
     THEN <<call.ret.val>> ELSE <<>>) \o call.dropped

\* C15: over any sequence of calls on an Array or DynamicArray every value is
\* accounted for at every step: the values live in the buffer plus those
\* handed to the call are the values live afterwards plus those the call
\* released (returned by pop, handed back by a refused push, or dropped by
\* set, clear, a panicking call or the destructor), which for a call that
\* leaves the buffer as it was means it released just what it was handed; the
\* live values are
\* exactly the slots [0, len); no slot is ever released twice, overwritten
\* while live, or read uninitialized. The destructor releases every element
\* still stored, leaves nothing live and no allocation, having deallocated
\* the buffer exactly once, and only if capacity > 0.
C15_ReleasedExactlyOnce ==
    /\ [](Container =>
            /\ ub = {}
            /\ \A i \in 1..Len(mem) : (mem[i].st = "init") = (i <= len))
    /\ [][vars' # vars =>
            \/ mem' = mem /\ ValuesIn(last') = ValuesOut(last')
            \/ \A v \in Values :
                    LiveCount(mem, v) + Count(ValuesIn(last'), v)
                        = LiveCount(mem', v) + Count(ValuesOut(last'), v)]_vars
    /\ [][Container /\ last'.op = "drop" =>
            /\ kind' = "dropped"
            /\ Len(last'.dropped) = len
            /\ \A i \in 1..len : last'.dropped[len + 1 - i] = mem[i].v
            /\ \A v \in Values : LiveCount(mem', v) = 0
            /\ ub' = {}
            /\ heap' = EmptyHeap
            /\ capacity > 0 => heap[ptr] = capacity
            /\ capacity = 0 => heap = EmptyHeap]_vars

\* A DynamicArray that held [1, 2, 2] in a buffer of capacity 4, one slot
\* vacated by a pop, was destroyed: 2, 2, 1 were dropped, the buffer freed.
C15_Witness ==
    /\ kind = "dropped" /\ last.op = "drop"
    /\ last.dropped = <<2, 2, 1>>
    /\ capacity = 4 /\ len = 0
    /\ heap = EmptyHeap /\ ub = {} /\ fault = "none"

\* The container searched and where a target occurs in it (indices from 0).
Searched == Contents(Self)
Occurrences(t) == {i \in 0..(len - 1) : Searched[i + 1] = t}

\* C16: on every container sorted ascending (duplicates allowed, empty
\* included) and for every target, binary_search returns Some(i) with
\* element i equal to the target if the target occurs, and None if it does
\* not occur.
C16_BinarySearchFinds ==
    last.op = "binary_search" =>
        LET t == last.arg[1]
        IN  /\ IsSorted(Searched)
            /\ fault = "none"
            /\ Occurrences(t) # {} =>
                   last.ret.tag = "Some" /\ last.ret.val \in Occurrences(t)
            /\ Occurrences(t) = {} => last.ret = None

\* binary_search(&2) on the Array [1, 2, 2, 2, 3, 4, 5] found the 2 at index 3.
C16_Witness ==
    /\ kind = "Array" /\ last.op = "binary_search" /\ last.arg = <<2>>
    /\ Searched = <<1, 2, 2, 2, 3, 4, 5>>
    /\ last.ret = Some(3)

\* The least and the greatest element of a non-empty set of indices.
Least(I) == CHOOSE i \in I : \A j \in I : i <= j
Greatest(I) == CHOOSE i \in I : \A j \in I : i >= j

\* C17: on every container sorted ascending and for every target,
\* binary_search_first returns the smallest index holding the target and
\* binary_search_last the largest; the indices holding the target are
\* exactly those from the first to the last; both return None when the target
\* does not occur. ([1, 2, 2, 2, 3, 4, 5], target 2: first 1, last 3;
\* [5, 5, 5, 5], target 5: first 0, last 3.)
C17_FirstAndLast ==
    last.op \in {"binary_search_first", "binary_search_last"} =>
        LET t == last.arg[1]
            first == binary_search_first(kind, Self, t)
            final == binary_search_last(kind, Self, t)
        IN  /\ fault = "none"
            /\ last.ret = IF last.op = "binary_search_first" THEN first ELSE final
            /\ Occurrences(t) = {} => first = None /\ final = None
            /\ Occurrences(t) # {} =>
                   /\ first = Some(Least(Occurrences(t)))
                   /\ final = Some(Greatest(Occurrences(t)))
                   /\ Occurrences(t) = first.val..final.val
            /\ (Searched = <<1, 2, 2, 2, 3, 4, 5>> /\ t = 2) =>
                   first = Some(1) /\ final = Some(3)
            /\ (Searched = <<5, 5, 5, 5>> /\ t = 5) =>
                   first = Some(0) /\ final = Some(3)

\* binary_search_first(&2) on [1, 2, 2, 2, 3, 4, 5] returned 1.
C17_Witness ==
    /\ last.op = "binary_search_first" /\ last.arg = <<2>>
    /\ Searched = <<1, 2, 2, 2, 3, 4, 5>>
    /\ last.ret = Some(1)
    /\ binary_search_last(kind, Self, 2) = Some(3)

\* C18: on every container sorted ascending, of length n, and for every
\* target, binary_search_insertion_point returns p with 0 <= p <= n such that
\* every element at an index < p is less than the target and every element
\* at an index >= p is not (p = n if all are less, p = 0 for the empty
\* container), so inserting the target at p keeps the order; if the target
\* occurs, p is the index of its first occurrence, the result of
\* binary_search_first.
C18_InsertionPoint ==
    last.op = "binary_search_insertion_point" =>
        LET t == last.arg[1]
            p == last.ret.val
        IN  /\ fault = "none"
            /\ last.ret.tag = "usize"
            /\ 0 <= p /\ p <= len
            /\ \A i \in 0..(len - 1) : (i < p) = (Searched[i + 1] < t)
            /\ (\A i \in 0..(len - 1) : Searched[i + 1] < t) => p = len
            /\ len = 0 => p = 0
            /\ IsSorted(SubSeq(Searched, 1, p) \o <<t>> \o SubSeq(Searched, p + 1, len))
            /\ Occurrences(t) # {} =>
                   /\ p = Least(Occurrences(t))
                   /\ binary_search_first(kind, Self, t) = Some(p)

\* binary_search_insertion_point(&3) on [1, 3, 3, 5] returned 1, the first 3.
C18_Witness ==
    /\ last.op = "binary_search_insertion_point" /\ last.arg = <<3>>
    /\ Searched = <<1, 3, 3, 5>>
    /\ last.ret = Usize(1)

\* C19 as claimed: on every container sorted ascending (lengths 0 and 1 and
\* duplicate values included) and for every target, jump_search returns what
\* binary_search returns: the same index, or None for both.
C19_JumpEqualsBinary ==
    last.op = "jump_search" =>
        /\ fault = "none"
        /\ last.ret = binary_search(kind, Self, last.arg[1])

\* C19, amended: on every container sorted ascending (lengths 0 and 1 and
\* duplicate values included) and for every target, jump_search and
\* binary_search both return None if the target does not occur and both
\* return the index of an element equal to the target if it occurs; the two
\* indices are the same when the target occurs once, and may differ when it
\* occurs several times.
C19_JumpAgreesWithBinary ==
    last.op = "jump_search" =>
        LET t == last.arg[1]
            b == binary_search(kind, Self, t)
        IN  /\ fault = "none"
            /\ (last.ret = None) = (b = None)
            /\ (b = None) = (Occurrences(t) = {})
            /\ last.ret # None =>
                   /\ last.ret.tag = "Some" /\ last.ret.val \in Occurrences(t)
                   /\ b.tag = "Some" /\ b.val \in Occurrences(t)
            /\ Cardinality(Occurrences(t)) <= 1 => last.ret = b

\* jump_search(&4) on the DynamicArray [1, 2, 3, 4, 5] returned 3, as
\* binary_search does.
C19_Witness ==
    /\ kind = "DynamicArray" /\ last.op = "jump_search" /\ last.arg = <<4>>
    /\ Searched = <<1, 2, 3, 4, 5>>
    /\ last.ret = Some(3)
    /\ binary_search(kind, Self, 4) = Some(3)

\* C20: on every container sorted ascending, of length n, for every target
\* and every jump_size >= 1 (jump_size = 1 and jump_size > n included),
\* jump_search_with_size returns, without faulting, Some(i) with element i
\* equal to the target if the target occurs and None if it does not (target
\* below, between or above the elements); with jump_size = 0 or n = 0 it
\* returns None.
C20_JumpWithSizeTotal ==
    last.op = "jump_search_with_size" =>
        LET t == last.arg[1]
            jump_size == last.arg[2]
        IN  /\ fault = "none"
            /\ (jump_size = 0 \/ len = 0) => last.ret = None
            /\ Occurrences(t) # {} /\ jump_size >= 1 =>
                   last.ret.tag = "Some" /\ last.ret.val \in Occurrences(t)
            /\ Occurrences(t) = {} => last.ret = None

\* jump_search_with_size(&6, 5) on [1, 3, 5]: the target is above every
\* element and the jump size above the length; n - jump_size overflowed.
C20_Witness ==
    /\ last.op = "jump_search_with_size" /\ last.arg = <<6, 5>>
    /\ Searched = <<1, 3, 5>>
    /\ fault = "arithmetic_overflow" /\ last.ret = Panicked

\* C21: on every container sorted ascending and for every target,
\* jump_search_first returns the smallest index holding the target and
\* jump_search_last the largest (both None when the target does not occur):
\* what binary_search_first and binary_search_last return on the same input.
\* ([1, 2, 2, 2, 3, 4, 5], target 2: first 1, last 3; [5, 5, 5, 5], target
\* 5: first 0, last 3.)
C21_JumpFirstAndLast ==
    last.op \in {"jump_search_first", "jump_search_last"} =>
        LET t == last.arg[1]
        IN  /\ IsSorted(Searched)
            /\ fault = "none"
            /\ last.op = "jump_search_first" =>
                   /\ last.ret = binary_search_first(kind, Self, t)
                   /\ last.ret = IF Occurrences(t) = {} THEN None
                                 ELSE Some(Least(Occurrences(t)))
            /\ last.op = "jump_search_last" =>
                   /\ last.ret = binary_search_last(kind, Self, t)
                   /\ last.ret = IF Occurrences(t) = {} THEN None
                                 ELSE Some(Greatest(Occurrences(t)))
            /\ (Searched = <<1, 2, 2, 2, 3, 4, 5>> /\ t = 2) =>
                   last.ret = IF last.op = "jump_search_first" THEN Some(1) ELSE Some(3)
            /\ (Searched = <<5, 5, 5, 5>> /\ t = 5) =>
                   last.ret = IF last.op = "jump_search_first" THEN Some(0) ELSE Some(3)

\* jump_search_last(&2) on the DynamicArray [1, 2, 2, 2, 3, 4, 5] returned 3,
\* two steps to the right of the match the jump search found at index 1.
C21_Witness ==
    /\ kind = "DynamicArray" /\ last.op = "jump_search_last" /\ last.arg = <<2>>
    /\ Searched = <<1, 2, 2, 2, 3, 4, 5>>
    /\ last.ret = Some(3)
    /\ \E build \in Builds : jump_search(kind, Self, 2, build).ret = Some(1)

\* The indices whose element the predicate accepts.
Accepted(predicate) == {i \in 0..(len - 1) : Searched[i + 1] \in predicate}

\* C22: on every container, sorted or not, and for every target,
\* linear_search_all returns exactly the indices holding the target, in
\* strictly ascending order (the empty Vec when there is none);
\* linear_search returns the first of them and reverse_linear_search the
\* last (None when there is none); linear_search_if returns the smallest
\* index whose element satisfies the predicate (None when no element does).
C22_LinearSearches ==
    /\ last.op \in {"linear_search", "linear_search_all", "reverse_linear_search"} =>
           LET t == last.arg[1]
               all == linear_search_all(kind, Self, t).val
           IN  /\ fault = "none"
               /\ \A j \in 1..(Len(all) - 1) : all[j] < all[j + 1]
               /\ {all[j] : j \in 1..Len(all)} = Occurrences(t)
               /\ last.op = "linear_search_all" => last.ret = Vec(all)
               /\ last.op = "linear_search" =>
                      last.ret = IF all = <<>> THEN None ELSE Some(all[1])
               /\ last.op = "reverse_linear_search" =>
                      last.ret = IF all = <<>> THEN None ELSE Some(all[Len(all)])
               /\ (Searched = <<1, 2, 3, 2, 1, 2>> /\ t = 2) => all = <<1, 3, 5>>
    /\ last.op = "linear_search_if" =>
           /\ fault = "none"
           /\ last.ret = IF Accepted(last.arg[1]) = {} THEN None
                         ELSE Some(Least(Accepted(last.arg[1])))

\* reverse_linear_search(&2) on the unsorted Array [1, 2, 3, 2, 1, 2] returned
\* 5, the last of the indices 1, 3, 5 that linear_search_all returns.
C22_Witness ==
    /\ kind = "Array" /\ last.op = "reverse_linear_search" /\ last.arg = <<2>>
    /\ Searched = <<1, 2, 3, 2, 1, 2>>
    /\ last.ret = Some(5)
    /\ linear_search_all(kind, Self, 2) = Vec(<<1, 3, 5>>)
    /\ linear_search(kind, Self, 2) = Some(1)

\* The containers that pushing the items one at a time, in order, can leave
\* (one per way the allocator answers), when every push returns.
RECURSIVE PushedOneAtATime(_, _)
PushedOneAtATime(m, items) ==
    IF items = <<>>
    THEN {m}
    ELSE UNION { LET o == DynamicArray_push(m, Head(items), a)
                 IN  IF o.fault # "none" THEN {}
                     ELSE PushedOneAtATime(o.m, Tail(items))
                 : a \in PushAnswers(m) }

\* The capacity that growth reaches from capacity c to hold n elements: c if
\* n fits, else 1 from 0 and the double otherwise, repeated.
RECURSIVE GrownCapacity(_, _)
GrownCapacity(c, n) ==
    IF n <= c THEN c ELSE GrownCapacity(IF c = 0 THEN 1 ELSE 2 * c, n)

\* C23: an extend(seq) that returns leaves the DynamicArray in a state that
\* pushing the items of seq one at a time in order leaves: len has grown by
\* the number of items, the items follow the elements already stored, in
\* sequence order, the elements already stored are unchanged, and capacity
\* is the one incremental growth reaches (1 from 0, then doubling until the
\* elements fit), not a single allocation of the size needed.
C23_ExtendIsRepeatedPush ==
    [][Dynamic /\ last'.op = "extend" /\ fault' = "none" =>
            LET items == last'.arg
            IN  /\ Self' \in PushedOneAtATime(Self, items)
                /\ \A m \in PushedOneAtATime(Self, items) :
                       /\ m.len = len' /\ m.capacity = capacity'
                       /\ Contents(m) = Contents(Self')
                /\ len' = len + Len(items)
                /\ Contents(Self') = Contents(Self) \o items
                /\ capacity' = GrownCapacity(capacity, len')
                /\ last'.ret = Unit /\ last'.dropped = <<>> /\ ub' = ub]_vars

\* extend([1, 2]) on an array of one element returned with capacity 4: the
\* capacity two growths reach, where one allocation of the size needed
\* would have left 3.
C23_Witness ==
    /\ Dynamic /\ last.op = "extend" /\ last.arg = <<1, 2>> /\ fault = "none"
    /\ len = 3 /\ capacity = 4
    /\ mem[2] = Live(1) /\ mem[3] = Live(2) /\ mem[4] = Uninit

\* C24: when a push finds len == capacity, the new capacity is 1 if capacity
\* is 0 and capacity * 2 otherwise, computed with an overflow check: if
\* capacity * 2 exceeds usize::MAX the push panics and no capacity is set;
\* a capacity that is set is never a wrapped-around value, it is greater
\* than the old one, so a push never decreases the capacity (a push that
\* finds len < capacity, or panics, leaves it as it was).
C24_GrowthOverflowChecked ==
    /\ [](frame.pc \in {"grow_alloc", "panicked"} =>
            LET c == frame.capacity
                overflows == c > USIZE_MAX - c
            IN  /\ c = 0 => frame.new_capacity = Some(1)
                /\ c > 0 /\ ~overflows => frame.new_capacity = Some(c + c)
                /\ overflows =>
                       /\ frame.new_capacity = None
                       /\ frame.pc = "panicked" /\ fault = "capacity_overflow"
                /\ frame.pc = "grow_alloc" =>
                       /\ fault = "none"
                       /\ frame.new_capacity.tag = "Some"
                       /\ frame.new_capacity.val > c
                       /\ frame.new_capacity.val <= USIZE_MAX)
    /\ [][Dynamic /\ last'.op = "push" =>
            /\ capacity' >= capacity
            /\ (len = capacity /\ fault' = "none") =>
                   /\ Some(capacity') = DynamicArray_grow_new_capacity(capacity)
                   /\ capacity' = IF capacity = 0 THEN 1 ELSE capacity + capacity
            /\ (len < capacity \/ fault' # "none") => capacity' = capacity]_vars

\* grow() at the smallest capacity whose double exceeds usize::MAX panicked.
C24_Witness ==
    /\ frame.pc = "panicked" /\ fault = "capacity_overflow"
    /\ frame.capacity = USIZE_MAX \div 2 + 1
    /\ frame.new_capacity = None

\* C25: in pop, of Array and of DynamicArray, len is decremented strictly
\* before the slot is read: in the intermediate state, where the element at
\* the old last index is about to be moved out, len already excludes that
\* slot and the buffer is untouched; the read then moves out exactly that
\* slot and leaves len alone. So no state, intermediate ones included, has a
\* moved-out slot inside [0, len), and the two statements together do what
\* pop does as a whole.
C25_PopDecrementsBeforeRead ==
    /\ [](Container => \A i \in 1..Len(mem) : i <= len => mem[i].st = "init")
    /\ [](frame.pc = "pop_read" => len < Len(mem) /\ mem[len + 1].st = "init")
    /\ [][frame.pc = "idle" /\ frame'.pc = "pop_read" =>
            len > 0 /\ len' = len - 1 /\ mem' = mem /\ last' = last]_vars
    /\ [][frame.pc = "pop_read" /\ frame'.pc = "idle" =>
            LET whole == IF kind = "Array"
                         THEN Array_pop([Self EXCEPT !.len = len + 1])
                         ELSE DynamicArray_pop([Self EXCEPT !.len = len + 1])
            IN  /\ len' = len
                /\ mem' = [mem EXCEPT ![len + 1] = Moved]
                /\ last'.op = "pop" /\ last'.ret = Some(mem[len + 1].v)
                /\ ub' = {}
                /\ whole.m = Self' /\ whole.ret = last'.ret]_vars

\* In the middle of a pop on [1, 2, 1]: len is 2 already, the third slot
\* still holds its value.
C25_Witness ==
    /\ frame.pc = "pop_read"
    /\ len = 2 /\ mem[1] = Live(1) /\ mem[2] = Live(2) /\ mem[3] = Live(1)
    /\ last.op = "push"

\* The number of binary digits of n: the most probes a binary search of n
\* elements makes.
RECURSIVE Bits(_)
Bits(n) == IF n = 0 THEN 0 ELSE 1 + Bits(n \div 2)

\* What the search in progress returns when taken as a whole (for
\* binary_search_by: when its closure compares with a target).
WholeBinarySearch ==
    CASE frame.fn = "binary_search" -> {binary_search(kind, Self, frame.arg)}
      [] frame.fn = "binary_search_first" -> {binary_search_first(kind, Self, frame.arg)}
      [] frame.fn = "binary_search_last" -> {binary_search_last(kind, Self, frame.arg)}
      [] OTHER -> {binary_search(kind, Self, t) :
                       t \in {u \in ProbeTargets : frame.f = compare_with(u, UnsortedKeys)}}

\* C26: in binary_search, binary_search_by, binary_search_first and
\* binary_search_last on a non-empty container of length n, sorted or not,
\* every probe has 0 <= low <= mid <= high <= n - 1 with
\* mid = low + (high - low) / 2, and get(mid) is the element at mid, never
\* absent; low and high stay within 0..n and 0..n - 1 (high = mid - 1 is
\* never computed at mid = 0: the search leaves the loop there), nothing
\* overflows; every round that stays in the loop narrows high - low, and the
\* search returns after at most as many probes as n has binary digits,
\* with the value the search returns when taken as a whole.
C26_BinaryProbesInBounds ==
    /\ [](frame.pc \in {"binary_loop", "binary_return"} =>
            /\ len >= 1
            /\ frame.fault = "none" /\ frame.ret # Panicked
            /\ 0 <= frame.low /\ frame.low <= frame.high + 1
            /\ 0 <= frame.high /\ frame.high <= len - 1
            /\ frame.rounds <= Bits(len)
            /\ frame.rounds > 0 =>
                   /\ 0 <= frame.mid /\ frame.mid <= len - 1
                   /\ frame.got = Some(Searched[frame.mid + 1]))
    /\ [][frame.pc = "binary_loop" /\ frame' # frame =>
            IF frame'.rounds = frame.rounds
            THEN frame.low > frame.high /\ frame'.pc = "binary_return"
            ELSE /\ frame'.rounds = frame.rounds + 1
                 /\ 0 <= frame.low /\ frame.low <= frame'.mid
                 /\ frame'.mid <= frame.high /\ frame.high <= len - 1
                 /\ frame'.mid = frame.low + (frame.high - frame.low) \div 2
                 /\ frame'.pc = "binary_loop" =>
                        /\ frame'.high - frame'.low < frame.high - frame.low
                        /\ \/ frame'.low = frame'.mid + 1 /\ frame'.high = frame.high
                           \/ frame'.high = frame'.mid - 1 /\ frame'.low = frame.low
                                /\ frame'.mid > 0
                 /\ (frame'.pc = "binary_return" /\ frame'.ret = None
                          /\ frame.f[frame'.got.val] # "Less") => frame'.mid = 0]_vars
    /\ [][frame.pc = "binary_return" /\ frame'.pc = "idle" =>
            /\ fault' = "none"
            /\ last'.op = frame.fn /\ last'.ret = frame.ret
            /\ \A whole \in WholeBinarySearch : last'.ret = whole]_vars

\* binary_search_first(&1) on the unsorted [2, 1, 3, 1]: the probe at mid = 1
\* matched, the next probe at mid = 0 found a greater element and the search
\* left the loop there, with the match.
C26_Witness ==
    /\ frame.pc = "binary_return"
    /\ frame.fn = "binary_search_first" /\ frame.arg = 1
    /\ Searched = <<2, 1, 3, 1>>
    /\ frame.rounds = 2 /\ frame.mid = 0 /\ frame.low = 0 /\ frame.high = 0
    /\ frame.ret = Some(1)

\* C27: jump_search_with_size terminates for every container of length
\* n >= 1, every jump_size >= 1 (smaller than, equal to, or larger than n)
\* and every target: the block-advancement loop, with its early exit
\* (curr == n - 1 && prev > n - jump_size), always reaches the linear scan,
\* and the linear scan always finishes and the call returns.
C27_JumpWithSizeTerminates ==
    /\ (frame.pc = "jump_loop") ~> (frame.pc = "linear_loop")
    /\ (frame.pc = "linear_loop") ~> (frame.pc = "idle" /\ fault = "none")

\* C27, for the jump sizes up to the length only: the domain on which the
\* loop always reaches the linear scan and the call always returns.
C27_TerminatesUpToLength ==
    /\ (frame.pc = "jump_loop" /\ frame.jump_size <= len) ~> (frame.pc = "linear_loop")
    /\ (frame.pc = "linear_loop") ~> (frame.pc = "idle" /\ fault = "none")

\* jump_search_with_size(&4, 5) on [1, 2, 3] in a build without overflow
\* checks: prev = 3 and curr = 2, and the next round leaves them so; the
\* loop runs for ever.
C27_Witness ==
    /\ frame.pc = "jump_loop" /\ frame.build = "release"
    /\ Searched = <<1, 2, 3>> /\ frame.target = 4 /\ frame.jump_size = 5
    /\ frame.prev = 3 /\ frame.curr = 2
    /\ jump_round(kind, Self, frame) = frame

C29_ShrinkHalvesAndLeavesRoom ==
    [][(/\ Dynamic /\ last'.op = "shrink_to_fit"
        /\ len > 0 /\ capacity' < capacity) =>
           /\ capacity' = capacity \div 2
           /\ len < capacity \div 2
           /\ len' = len /\ len' < capacity'
           /\ Len(mem') = capacity'
           /\ \A value \in Values :
                  LET o == DynamicArray_push(Self', value, NULL)
                  IN  /\ o.fault = "none" /\ o.ret = Unit
                      /\ o.m.capacity = capacity' /\ o.m.ptr = ptr'
                      /\ o.m.len = len + 1
                      /\ DynamicArray_get(o.m, len).ret = Some(value)]_vars

\* shrink_to_fit took 11 elements from capacity 50 to 25, and 1 element
\* from capacity 9 to 4.
C29_Witness ==
    /\ Dynamic /\ last.op = "shrink_to_fit" /\ last.ret = Unit /\ recent = "shrunk"
    /\ \/ capacity = 25 /\ len = 11
       \/ capacity = 4 /\ len = 1 /\ Len(mem) = 4

\* C30: on every container sorted ascending, of length n, for every target
\* and every jump_size with 1 <= jump_size <= n, jump_search_with_size
\* returns without faulting, and when it returns Some(i) then i is the
\* lowest index holding the target: every element before i is less than the
\* target. Hence jump_search (whose jump size is within 1..n), on every
\* sorted container and target, returns what jump_search_first and
\* binary_search_first return.
C30_JumpFindsLowest ==
    /\ (/\ last.op = "jump_search_with_size"
        /\ 1 <= last.arg[2] /\ last.arg[2] <= len) =>
           LET t == last.arg[1]
           IN  /\ IsSorted(Searched)
               /\ fault = "none"
               /\ last.ret \in {None} \cup {Some(i) : i \in 0..(len - 1)}
               /\ last.ret # None =>
                      /\ last.ret.val \in Occurrences(t)
                      /\ last.ret.val = Least(Occurrences(t))
                      /\ \A j \in 0..(last.ret.val - 1) : Searched[j + 1] < t
               /\ last.ret = binary_search_first(kind, Self, t)
    /\ last.op = "jump_search" =>
           LET t == last.arg[1]
           IN  /\ IsSorted(Searched)
               /\ fault = "none"
               /\ len >= 1 => optimal_jump_size(len) \in 1..len
               /\ last.ret = binary_search_first(kind, Self, t)
               /\ \A build \in Builds :
                      jump_search_first(kind, Self, t, build) = SearchResult(last.ret, "none")

\* jump_search_with_size(&2, 3) on the Array [1, 2, 2, 2, 3, 4, 5] returned
\* 1, the first of the three indices holding 2, where binary_search returns
\* the one in the middle.
C30_Witness ==
    /\ kind = "Array" /\ last.op = "jump_search_with_size" /\ last.arg = <<2, 3>>
    /\ Searched = <<1, 2, 2, 2, 3, 4, 5>>
    /\ last.ret = Some(1)
    /\ binary_search(kind, Self, 2) = Some(3)
====
